---- MODULE Spec2Model ----
(***************************************************************************)
(* Bitcoin Echo GUI: the client-side synchronization core.                 *)
(*                                                                         *)
(*   - the Connection Supervisor   src/lib/stores/connection.ts            *)
(*   - the RPC transport            src/lib/rpc/client.ts                  *)
(*   - the sync view's polling      src/routes/sync/+page.svelte           *)
(*   - the observer view's polling  routes/observer/+page.svelte           *)
(*   - the Mode Detector            src/lib/stores/nodeMode.ts             *)
(*   - the Session History Ledger   src/lib/stores/sessionHistory.ts       *)
(*   - the root layout              routes/+layout.svelte                  *)
(*                                                                         *)
(* JavaScript is single threaded: every action below is one run-to-        *)
(* completion step (a call from a view, a timer callback, or the           *)
(* continuation of an await). Timers fire and responses arrive in any      *)
(* order. A nullable value is the empty set (null) or a singleton.         *)
(***************************************************************************)
EXTENDS Bags, FiniteSets, Integers, Sequences, TLC

(***************************************************************************)
(* Bounds of the model                                                     *)
(***************************************************************************)
\* health checks in flight plus reconnect timers pending, at most
MaxPending == 2
\* the clock stops advancing after this many steps of TimeStep
MaxTicks == 1
\* sessions in the historical list, at most
MaxSessions == 1
\* the request ID counter stops at this value
MaxRequestId == 5
\* invocations of rpcCall / rpcBatchCall outstanding, at most
MaxRpcCalls == 2

(***************************************************************************)
(* Program constants                                                       *)
(***************************************************************************)
BLOCK_HEIGHT_REFRESH_INTERVAL == 30000
POLL_INTERVAL == 1618
ERROR_BACKOFF_INTERVAL == 10000

DEFAULT_CONFIG == [endpoint |-> "http://localhost:8332", timeout |-> 15000]

(***************************************************************************)
(* Nullable values                                                         *)
(***************************************************************************)
null == {}
Some(v) == {v}
Val(o) == CHOOSE v \in o : TRUE

(***************************************************************************)
(* Time: Date.now() in milliseconds. The page is loaded at T0.             *)
(***************************************************************************)
T0 == 100000
TimeStep == 31000
MaxNow == T0 + MaxTicks * TimeStep

(***************************************************************************)
(* Inputs from the outside world                                           *)
(***************************************************************************)
Endpoints == {"http://localhost:8332", "http://node:8332"}
Timeouts == {15000}

\* what setConfig can be called with (Partial<RPCConfig>)
Partials ==
    {[endpoint |-> e] : e \in Endpoints}
    \cup {[timeout |-> t] : t \in Timeouts}

\* ObserverStats snapshots the node can report
MessagesBase ==
    [version |-> 1, verack |-> 1, ping |-> 0, pong |-> 0, addr |-> 0,
     inv |-> 0, getdata |-> 0, block |-> 0, tx |-> 0, headers |-> 0,
     getblocks |-> 0, getheaders |-> 0, other |-> 0]

StatsBase ==
    [mode |-> "observer", uptime_seconds |-> 10, peer_count |-> 0,
     start_height |-> 0, messages_received |-> MessagesBase]

StatsSamples ==
    {StatsBase,
     [StatsBase EXCEPT !.peer_count = 5]}

\* BlockchainInfo snapshots the node can report
ChainInfoSamples ==
    {[blocks |-> 0, headers |-> 2000, initialblockdownload |-> TRUE, pruned |-> FALSE],
     [blocks |-> 480000, headers |-> 800000, initialblockdownload |-> TRUE, pruned |-> FALSE]}

\* third-party reference data; 0 is what a failed fetch yields
ExtHeights == {0, 800000}
ExtHashrates == {0, 500}

\* the ways a single RPC call can fail
FailureKinds == {"timeout", "http", "rpc", "null", "network"}

(***************************************************************************)
(* RPC transport: the message of the Error thrown by rpcCall               *)
(***************************************************************************)
rpcCallError(kind, method, cfg) ==
    CASE kind = "timeout" -> "RPC timeout after " \o ToString(cfg.timeout) \o "ms"
      [] kind = "http"    -> "HTTP 500: Internal Server Error"
      [] kind = "rpc"     -> "RPC Error -32601: Method not found"
      [] kind = "null"    -> "RPC returned null result"
      [] kind = "network" -> "Failed to fetch"

\* the message of the Error thrown by rpcBatchCall; calls are the batch's
\* methods, the failing call is the first one
rpcBatchCallError(kind, calls, cfg) ==
    CASE kind = "timeout" -> "RPC timeout after " \o ToString(cfg.timeout) \o "ms"
      [] kind = "http"    -> "HTTP 500: Internal Server Error"
      [] kind = "rpc"     -> "RPC Error in call 0 (" \o calls[1] \o "): -32601 - Method not found"
      [] kind = "null"    -> "RPC returned null result for " \o calls[1]
      [] kind = "network" -> "Failed to fetch"

\* the value of a property the object does not have
undefined == {[undefined |-> TRUE]}

\* obj[prop] of a parsed JSON object
Get(obj, prop) == IF prop \in DOMAIN obj THEN obj[prop] ELSE undefined

\* if (rpcResponse.error)
HasError(rpcResponse) == Get(rpcResponse, "error") \notin {null, undefined}

\* rpcCall after response.json() resolved with body: the outcome of the
\* invocation, a value returned or an Error thrown
rpcCallResponse(body, method, cfg) ==
    LET rpcResponse == body.json
    IN IF HasError(rpcResponse)
       THEN [ok |-> FALSE, message |-> rpcCallError("rpc", method, cfg)]
       ELSE IF Get(rpcResponse, "result") = null
       THEN [ok |-> FALSE, message |-> rpcCallError("null", method, cfg)]
       ELSE [ok |-> TRUE, value |-> Get(rpcResponse, "result")]

\* rpcBatchCall after response.json() resolved with body; an array is a
\* body whose json is a sequence under the field array
rpcBatchCallResponse(body, calls, cfg) ==
    IF "array" \notin DOMAIN body.json
    THEN [ok |-> FALSE, message |-> "Expected array response for batch request"]
    ELSE LET batchResponse == body.json.array
             throwing == {i \in 1..Len(batchResponse) :
                             \/ HasError(batchResponse[i])
                             \/ Get(batchResponse[i], "result") \in {null, undefined}}
         IN IF throwing = {}
            THEN [ok |-> TRUE,
                  value |-> [i \in 1..Len(batchResponse) |->
                                Get(batchResponse[i], "result")]]
            ELSE LET i == CHOOSE k \in throwing : \A m \in throwing : k <= m
                     e == Val(Get(batchResponse[i], "error"))
                 IN IF HasError(batchResponse[i])
                    THEN [ok |-> FALSE,
                          message |-> "RPC Error in call " \o ToString(i - 1)
                                      \o " (" \o calls[i] \o "): "
                                      \o ToString(e.code) \o " - " \o e.message]
                    ELSE [ok |-> FALSE,
                          message |-> "RPC returned null result for " \o calls[i]]

\* getSyncDataBatch: the object built from the results of the batch
\* [getblockchaininfo, getobserverstats]
getSyncDataBatch(results) ==
    [chainInfo |-> results[1], observerStats |-> results[2]]

\* getSyncDataBatch of the revision the sync view was written against: the
\* object built from the results of the batch
\* [getblockchaininfo, getobserverstats, getsyncstatus]
getSyncDataBatchWithStatus(results) ==
    [chainInfo |-> results[1], observerStats |-> results[2],
     syncStatus |-> results[3]]

\* the message of the TypeError thrown by reading a property of undefined
TypeErrorMessage(prop) ==
    "Cannot read properties of undefined (reading '" \o prop \o "')"

(***************************************************************************)
(* State                                                                   *)
(***************************************************************************)
VARIABLES
    \* connectionState (the store)
    status, config, lastError, lastCheck, stats,
    blockHeight, lastBlockHeightFetch, networkHashrate,
    \* module variables of connection.ts
    healthCheckTimer,      \* TRUE when the variable holds a timer handle
    skipAutoHealthCheck,
    \* the browser
    intervalTimers,        \* live setInterval(healthCheck) timers
    reconnectTimers,       \* pending setTimeout(healthCheck, RECONNECT_DELAY)
    checks,                \* bag of healthCheck invocations awaiting
    extFetches,            \* bag of fetchExternalData invocations awaiting
    storedConfig,          \* localStorage['bitcoin-echo-rpc-config']
    now,                   \* Date.now()
    \* rpc/client.ts
    requestId,             \* the request ID counter
    rpcCalls,              \* the invocations of rpcCall / rpcBatchCall not settled
    rpcSettled,            \* null or the invocation settled last, with its outcome
    \* a function of the program applied to arguments: null or its name, the
    \* arguments and the value returned
    evaluation,
    \* the observer view (routes/observer/+page.svelte)
    observerMounted,
    observerPoll,          \* TRUE while its setInterval(heartbeat) is live
    heartbeats,            \* heartbeat() invocations awaiting their batch
    \* the sync view (routes/sync/+page.svelte), one component instance
    syncView,              \* "none", "mounted" or "destroyed"
    isFetching, error, loading,
    chainInfo, syncStatus, blocksPerSecond,
    peerCount, nodeUptime, nodeStartHeight,
    hasSessionStart, sessionStartBlocks, sessionStartTime,
    lastBlockHeight, lastUpdateTime,
    pollInterval,          \* TRUE when the variable holds a timer handle
    pollIntervalPending,   \* TRUE while that handle's timeout is pending
    pollTimers,            \* delays of the pending setTimeout(poll), oldest first
    externalPoll,          \* TRUE while its setInterval(fetchExternalData) is live
    batches,               \* bag of fetchChainInfo invocations awaiting
    currentMilestoneNotification,  \* null or the height of the milestone shown
    dismissedMilestones,           \* heights of the milestones dismissed
    lastMilestoneCheckHeight,
    viewState, sessionTrackerStarted, wasNotSynced, justCompletedSync,
    resumeShown,           \* sessionStorage['bitcoin-echo-resume-shown-session']
    \* nodeModeState (the store of nodeMode.ts)
    mode, modeLoading, modeLastError, observerStats, blockchainInfo,
    detects,               \* bag of nodeMode.detect invocations awaiting
    \* the root layout (routes/+layout.svelte)
    layoutMounted, hasDetected,
    \* sessionHistoryState (the store of sessionHistory.ts)
    sessions, currentSession, completion, lastKnownHeight, lastKnownProgress,
    ledgerStorage          \* the four localStorage keys of the ledger

connVars ==
    <<status, config, lastError, lastCheck, stats,
      blockHeight, lastBlockHeightFetch, networkHashrate,
      healthCheckTimer, skipAutoHealthCheck,
      intervalTimers, reconnectTimers, checks, extFetches, storedConfig>>

rpcVars == <<requestId, rpcCalls, rpcSettled>>

observerVars == <<observerMounted, observerPoll, heartbeats>>

milestoneVars ==
    <<currentMilestoneNotification, dismissedMilestones, lastMilestoneCheckHeight>>

syncVars ==
    <<syncView, isFetching, error, loading,
      chainInfo, syncStatus, blocksPerSecond,
      peerCount, nodeUptime, nodeStartHeight,
      hasSessionStart, sessionStartBlocks, sessionStartTime,
      lastBlockHeight, lastUpdateTime,
      pollInterval, pollIntervalPending, pollTimers, externalPoll, batches,
      milestoneVars>>

effectVars ==
    <<viewState, sessionTrackerStarted, wasNotSynced, justCompletedSync, resumeShown>>

modeVars ==
    <<mode, modeLoading, modeLastError, observerStats, blockchainInfo,
      detects, layoutMounted, hasDetected>>

ledgerVars ==
    <<sessions, currentSession, completion, lastKnownHeight, lastKnownProgress,
      ledgerStorage>>

vars ==
    <<connVars, now, rpcVars, evaluation, observerVars, syncVars, effectVars, modeVars,
      ledgerVars>>

(***************************************************************************)
(* Small helpers                                                           *)
(***************************************************************************)
BagAdd(b, e) == b (+) SetToBag({e})
BagRemove(b, e) == b (-) SetToBag({e})

\* JavaScript's a || b on numbers
OrElse(a, b) == IF a # 0 THEN a ELSE b

\* the health checks of the bag ch whose getobserverstats call is outstanding
RpcOutstanding(ch) ==
    BagCardinality([c \in {d \in BagToSet(ch) : d.phase = "rpc"} |-> ch[c]])

\* the sequence s without its i-th element
RemoveAt(s, i) == SubSeq(s, 1, i - 1) \o SubSeq(s, i + 1, Len(s))

\* JavaScript's !x for a string | null
Not(x) == x = null \/ Val(x) = ""

(***************************************************************************)
(* statsChanged(oldStats, newStats)                                        *)
(***************************************************************************)
statsChanged_OldNullUnchanged(oldStats, newStats) ==
    IF oldStats = null THEN FALSE
    ELSE IF newStats = null THEN TRUE
    ELSE LET o == Val(oldStats)
             n == Val(newStats)
         IN \/ o.peer_count # n.peer_count
            \/ o.uptime_seconds # n.uptime_seconds
            \/ \E f \in {"version", "verack", "ping", "pong", "inv", "getdata",
                          "block", "tx"} :
                   o.messages_received[f] # n.messages_received[f]

statsChanged(oldStats, newStats) ==
    IF oldStats = null /\ newStats = null THEN FALSE
    ELSE IF oldStats = null \/ newStats = null THEN TRUE
    ELSE LET o == Val(oldStats)
             n == Val(newStats)
         IN \/ o.peer_count # n.peer_count
            \/ o.uptime_seconds # n.uptime_seconds
            \/ o.messages_received.version # n.messages_received.version
            \/ o.messages_received.verack # n.messages_received.verack
            \/ o.messages_received.ping # n.messages_received.ping
            \/ o.messages_received.pong # n.messages_received.pong
            \/ o.messages_received.inv # n.messages_received.inv
            \/ o.messages_received.getdata # n.messages_received.getdata
            \/ o.messages_received.block # n.messages_received.block
            \/ o.messages_received.tx # n.messages_received.tx

\* healthCheck() without the isFirstConnection test of line 175
healthCheck_AlwaysConnecting(st, ch, cfgv) ==
    IF st = "connecting"
    THEN [status |-> st, checks |-> ch]
    ELSE [status |-> "connecting",
          checks |-> BagAdd(ch, [phase |-> "rpc",
                                 isFirstConnection |-> (st # "connected"),
                                 state_stats |-> stats,
                                 cfg |-> cfgv])]

(***************************************************************************)
(* healthCheck(): the synchronous part, up to the await of the RPC call.   *)
(* Given the status and the bag of invocations before the call, the        *)
(* status and the bag after it. cfgv is the config in the store at the     *)
(* time of the call.                                                       *)
(***************************************************************************)
healthCheck(st, ch, cfgv) ==
    IF st = "connecting"
    THEN [status |-> st, checks |-> ch]
    ELSE [status |-> IF st # "connected" THEN "connecting" ELSE st,
          checks |-> BagAdd(ch, [phase |-> "rpc",
                                 isFirstConnection |-> (st # "connected"),
                                 state_stats |-> stats,
                                 cfg |-> cfgv])]

\* startHealthCheck() without the healthCheckTimer test of line 235
startHealthCheck_NoTimerGuard(timer, ivals, skip, st, ch, cfgv) ==
    IF skip
    THEN [healthCheckTimer |-> timer, intervalTimers |-> ivals,
          status |-> st, checks |-> ch]
    ELSE LET hc == healthCheck(st, ch, cfgv)
         IN [healthCheckTimer |-> TRUE, intervalTimers |-> ivals + 1,
             status |-> hc.status, checks |-> hc.checks]

\* startHealthCheck(), given the timer handle and the state before it
startHealthCheck(timer, ivals, skip, st, ch, cfgv) ==
    IF timer \/ skip
    THEN [healthCheckTimer |-> timer, intervalTimers |-> ivals,
          status |-> st, checks |-> ch]
    ELSE LET hc == healthCheck(st, ch, cfgv)
         IN [healthCheckTimer |-> TRUE, intervalTimers |-> ivals + 1,
             status |-> hc.status, checks |-> hc.checks]

\* stopHealthCheck(): the live interval timers after it
stopHealthCheck(timer, ivals) ==
    IF timer THEN ivals - 1 ELSE ivals

\* fetchExternalData(): the bag of awaiting invocations after the call
fetchExternalData(ext) ==
    IF blockHeight # 0 /\ now - lastBlockHeightFetch < BLOCK_HEIGHT_REFRESH_INTERVAL
    THEN ext
    ELSE BagAdd(ext, [now |-> now])

(***************************************************************************)
(* Session History (sessionHistory.ts). A ledger state is a record of the  *)
(* fields of SessionHistoryState plus storage, the four localStorage keys   *)
(* of the ledger: a key is null when absent, else it holds a text.         *)
(***************************************************************************)
\* JSON.stringify(v) / JSON.parse(text) for a value made of finite numbers,
\* strings, null, arrays and objects: the text denotes the value
JSON_stringify(v) == [json |-> v]
JSON_parse(text) == text.json

\* a text that is no JSON: JSON.parse throws a SyntaxError on it
MalformedJSON == [malformed |-> "{oops"]
JSON_parses(text) == "json" \in DOMAIN text

\* NaN: no number a text of the model denotes; as in JavaScript NaN > 0 and
\* NaN >= 0 are false
NaN == -1

\* String(n) for a whole number or NaN
String(n) == IF n = NaN THEN "NaN" ELSE ToString(n)

\* the numbers whose decimal text the model can read back
ParseDomain == 0..100 \cup {480000, 800000}

\* parseInt(text, 10) and parseFloat(text): the number of a decimal text,
\* NaN for a text that does not start with a number
parseInt(text) ==
    IF \E n \in ParseDomain : ToString(n) = text
    THEN CHOOSE n \in ParseDomain : ToString(n) = text
    ELSE NaN

\* new Date().toISOString() at time t, used as the session id
toISOString(t) == "T" \o ToString(t)

EmptyStorage ==
    [sessions |-> null, completion |-> null, lastHeight |-> null, lastProgress |-> null]

EmptyLedger ==
    [sessions |-> << >>, currentSession |-> null, completion |-> null,
     lastKnownHeight |-> 0, lastKnownProgress |-> 0, storage |-> EmptyStorage]

\* if (saved): getItem returned a text and it is not the empty one
Truthy(item) == item # null /\ Val(item) # ""

\* loadInitialState(): the in-memory state built from storage sto. The four
\* keys are read in one try block: a JSON.parse that throws leaves the
\* value of its key and of the keys after it at their defaults
loadInitialState(sto) ==
    LET sessionsThrows == sto.sessions # null /\ ~JSON_parses(Val(sto.sessions))
        completionThrows == /\ ~sessionsThrows
                            /\ sto.completion # null
                            /\ ~JSON_parses(Val(sto.completion))
        caught == sessionsThrows \/ completionThrows
    IN [sessions |-> IF sto.sessions # null /\ ~sessionsThrows
                     THEN JSON_parse(Val(sto.sessions)) ELSE << >>,
        currentSession |-> null,
        completion |-> IF sto.completion # null /\ ~caught
                       THEN Some(JSON_parse(Val(sto.completion))) ELSE null,
        lastKnownHeight |-> IF Truthy(sto.lastHeight) /\ ~caught
                            THEN parseInt(Val(sto.lastHeight)) ELSE 0,
        lastKnownProgress |-> IF Truthy(sto.lastProgress) /\ ~caught
                              THEN parseInt(Val(sto.lastProgress)) ELSE 0,
        storage |-> sto]

\* saveState(state): storage after it
saveState(L) ==
    [sessions |-> Some(JSON_stringify(L.sessions)),
     completion |-> IF L.completion # null
                    THEN Some(JSON_stringify(Val(L.completion)))
                    ELSE L.storage.completion,
     lastHeight |-> Some(String(L.lastKnownHeight)),
     lastProgress |-> Some(String(L.lastKnownProgress))]

\* startSession without the test of state.currentSession (line 153)
startSession_Reopen(L, currentBlocks, networkHeight, t) ==
    [L EXCEPT !.currentSession =
                  Some([id |-> toISOString(t), startTime |-> t, endTime |-> null,
                        startBlocks |-> currentBlocks, endBlocks |-> null,
                        networkHeight |-> networkHeight]),
              !.lastKnownHeight = currentBlocks]

\* sessionHistory.startSession(currentBlocks, networkHeight) at time t
startSession(L, currentBlocks, networkHeight, t) ==
    IF L.currentSession # null
    THEN L
    ELSE [L EXCEPT !.currentSession =
                       Some([id |-> toISOString(t), startTime |-> t, endTime |-> null,
                             startBlocks |-> currentBlocks, endBlocks |-> null,
                             networkHeight |-> networkHeight]),
                   !.lastKnownHeight = currentBlocks]

\* sessionHistory.updateProgress(currentBlocks, progress)
updateProgress(L, currentBlocks, progress) ==
    LET newState == [L EXCEPT !.lastKnownHeight = currentBlocks,
                              !.lastKnownProgress = progress]
    IN [newState EXCEPT !.storage = saveState(newState)]

\* endSession that appends the session as it was opened
endSession_NoEndTime(L, endBlocks, t) ==
    IF L.currentSession = null
    THEN L
    ELSE LET newState == [L EXCEPT !.sessions = Append(@, Val(L.currentSession)),
                                   !.currentSession = null,
                                   !.lastKnownHeight = endBlocks]
         IN [newState EXCEPT !.storage = saveState(newState)]

\* sessionHistory.endSession(endBlocks) at time t
endSession(L, endBlocks, t) ==
    IF L.currentSession = null
    THEN L
    ELSE LET endedSession == [Val(L.currentSession) EXCEPT !.endTime = Some(t),
                                                          !.endBlocks = Some(endBlocks)]
             newState == [L EXCEPT !.sessions = Append(@, endedSession),
                                   !.currentSession = null,
                                   !.lastKnownHeight = endBlocks]
         IN [newState EXCEPT !.storage = saveState(newState)]

\* the reduce of markComplete and totalSessionTime: the sum of the durations
\* of the sessions with a truthy endTime and startTime
RECURSIVE totalTime(_)
totalTime(ss) ==
    IF ss = << >> THEN 0
    ELSE LET session == Head(ss)
         IN (IF session.endTime # null /\ Val(session.endTime) # 0 /\ session.startTime # 0
             THEN Val(session.endTime) - session.startTime
             ELSE 0) + totalTime(Tail(ss))

\* markComplete that counts the session it closes a second time
markComplete_DoubleCount(L, totalBlocks, t) ==
    LET updatedState == IF L.currentSession # null
                        THEN endSession(L, totalBlocks, t) ELSE L
        record == [completedAt |-> t,
                   totalSessions |-> Len(updatedState.sessions)
                                       + (IF L.currentSession # null THEN 1 ELSE 0),
                   totalBlocks |-> totalBlocks,
                   totalTimeMs |-> totalTime(updatedState.sessions)]
        newState == [updatedState EXCEPT !.completion = Some(record),
                                         !.lastKnownHeight = totalBlocks,
                                         !.lastKnownProgress = 100]
    IN [newState EXCEPT !.storage = saveState(newState)]

\* sessionHistory.markComplete(totalBlocks) at time t
markComplete(L, totalBlocks, t) ==
    LET updatedState == IF L.currentSession # null
                        THEN endSession(L, totalBlocks, t) ELSE L
        record == [completedAt |-> t,
                   totalSessions |-> Len(updatedState.sessions),
                   totalBlocks |-> totalBlocks,
                   totalTimeMs |-> totalTime(updatedState.sessions)]
        newState == [updatedState EXCEPT !.completion = Some(record),
                                         !.lastKnownHeight = totalBlocks,
                                         !.lastKnownProgress = 100]
    IN [newState EXCEPT !.storage = saveState(newState)]

\* sessionHistory.reset()
reset(L) == EmptyLedger

\* the ledger state held by the variables, and its assignment
Ledger ==
    [sessions |-> sessions, currentSession |-> currentSession,
     completion |-> completion, lastKnownHeight |-> lastKnownHeight,
     lastKnownProgress |-> lastKnownProgress, storage |-> ledgerStorage]

SetLedger(L) ==
    /\ sessions' = L.sessions
    /\ currentSession' = L.currentSession
    /\ completion' = L.completion
    /\ lastKnownHeight' = L.lastKnownHeight
    /\ lastKnownProgress' = L.lastKnownProgress
    /\ ledgerStorage' = L.storage

(***************************************************************************)
(* Node mode (nodeMode.ts)                                                 *)
(***************************************************************************)
\* detectMode(stats, info), both nullable
detectMode_NoDefault(st, info) ==
    IF st = null THEN "unknown"
    ELSE IF Val(st).mode = "observer" THEN "observer"
    ELSE IF Val(st).mode = "full" /\ info # null
         THEN (IF Val(info).pruned THEN "validate-lite" ELSE "validate-archival")
    ELSE "unknown"

detectMode(st, info) ==
    IF st = null THEN "unknown"
    ELSE IF Val(st).mode = "observer" THEN "observer"
    ELSE IF Val(st).mode = "full"
         THEN IF info # null
              THEN (IF Val(info).pruned THEN "validate-lite" ELSE "validate-archival")
              ELSE "validate-archival"
    ELSE "unknown"

\* the derived store isIBD of a mode and a nullable chain info
isIBDOf(m, info) ==
    IF m = "observer" THEN FALSE
    ELSE IF info # null THEN Val(info).initialblockdownload
    ELSE FALSE

isIBD == isIBDOf(mode, blockchainInfo)

\* nodeMode.detect(config): the call, up to its first await, on the store
\* fields it writes
detect(cfgv) ==
    /\ modeLoading' = TRUE
    /\ modeLastError' = null
    /\ detects' = BagAdd(detects, [phase |-> "stats", cfg |-> cfgv])
    /\ UNCHANGED <<mode, observerStats, blockchainInfo>>

\* the $effect of the root layout, run after a step in which the layout is
\* mounted (mounted) and the store has the status st
layoutEffect(mounted, st, cfgv) ==
    IF mounted /\ st = "connected" /\ ~hasDetected
    THEN /\ hasDetected' = TRUE
         /\ detect(cfgv)
    ELSE UNCHANGED <<mode, modeLoading, modeLastError, observerStats,
                     blockchainInfo, detects, hasDetected>>

LayoutEffect ==
    /\ layoutEffect(layoutMounted, status', config')
    /\ UNCHANGED layoutMounted

(***************************************************************************)
(* Milestones (rpc/milestones) and the sync view's milestone tracking      *)
(***************************************************************************)
\* the heights of MILESTONES, in the order of the table
MILESTONES ==
    <<0, 170, 57043, 173805, 210000, 227931, 363725, 388381, 419328, 420000,
      481824, 630000, 709632, 840000>>

\* getMilestonesBetween(fromHeight, toHeight)
getMilestonesBetween(fromHeight, toHeight) ==
    SelectSeq(MILESTONES, LAMBDA m : m >= fromHeight /\ m <= toHeight)

\* the milestone tracking of the view held by the variables, and its
\* assignment
Milestones ==
    [notification |-> currentMilestoneNotification,
     dismissed |-> dismissedMilestones,
     lastCheck |-> lastMilestoneCheckHeight]

SetMilestones(ms) ==
    /\ currentMilestoneNotification' = ms.notification
    /\ dismissedMilestones' = ms.dismissed
    /\ lastMilestoneCheckHeight' = ms.lastCheck

\* checkMilestones(currentHeight)
checkMilestones(ms, currentHeight) ==
    IF ms.lastCheck = 0
    THEN [ms EXCEPT !.lastCheck = currentHeight]
    ELSE IF currentHeight <= ms.lastCheck
    THEN ms
    ELSE LET passedMilestones == getMilestonesBetween(ms.lastCheck + 1, currentHeight)
             shown == {i \in 1..Len(passedMilestones) :
                          passedMilestones[i] \notin ms.dismissed}
         IN [ms EXCEPT !.notification =
                           IF shown = {} THEN @
                           ELSE Some(passedMilestones[CHOOSE i \in shown :
                                                         \A k \in shown : k <= i]),
                       !.lastCheck = currentHeight]

\* dismissMilestone()
dismissMilestone(ms) ==
    IF ms.notification # null
    THEN [ms EXCEPT !.dismissed = @ \cup {Val(ms.notification)},
                    !.notification = null]
    ELSE ms

(***************************************************************************)
(* Sync view: derived values and the $effect that tracks the session and   *)
(* detects completion                                                      *)
(***************************************************************************)
Max(a, b) == IF a > b THEN a ELSE b
Min(a, b) == IF a < b THEN a ELSE b

\* calcProgress(validated, network), in whole percent
calcProgress(validated, network) ==
    IF network <= 0 THEN 0 ELSE Min((validated * 100) \div network, 100)

\* validatedHeight for the chain info ci
validatedHeight(ci) == IF ci = null THEN 0 ELSE Val(ci).blocks

isSynced_NoLagTest(ci, networkHeight) ==
    /\ ci # null
    /\ ~Val(ci).initialblockdownload
    /\ ~(validatedHeight(ci) = 0 /\ networkHeight > 0)

\* isSynced() for the chain info ci and the network height
isSynced(ci, networkHeight) ==
    /\ ci # null
    /\ ~Val(ci).initialblockdownload
    /\ ~(validatedHeight(ci) = 0 /\ networkHeight > 0)
    /\ ~(Max(0, networkHeight - validatedHeight(ci)) > 10)

\* the $effect without the test of $syncCompletion (line 445)
SyncEffectIn_NoCompletionTest(vs) ==
    IF syncView' = "mounted" /\ chainInfo' # null /\ ~loading'
    THEN LET ci == chainInfo'
             vh == validatedHeight(ci)
             nh == blockHeight'
             synced == isSynced(ci, nh)
             starts == vs = "syncing" /\ ~synced /\ ~sessionTrackerStarted
             started == sessionTrackerStarted \/ starts
             L1 == IF starts THEN startSession(Ledger, Val(ci).blocks, nh, now') ELSE Ledger
             L2 == IF started /\ vh > 0
                   THEN updateProgress(L1, vh, calcProgress(vh, nh)) ELSE L1
             completes == wasNotSynced /\ synced /\ vh > 0
             L3 == IF completes THEN markComplete(L2, vh, now') ELSE L2
         IN /\ sessionTrackerStarted' = started
            /\ wasNotSynced' = (wasNotSynced /\ ~completes)
            /\ justCompletedSync' = (justCompletedSync \/ completes)
            /\ viewState' = IF completes THEN "complete" ELSE vs
            /\ SetLedger(L3)
    ELSE /\ viewState' = vs
         /\ UNCHANGED <<sessionTrackerStarted, wasNotSynced, justCompletedSync>>
         /\ UNCHANGED ledgerVars

\* the $effect of lines 426-450, run after a step of the mounted view that
\* left the view state vs
SyncEffectIn(vs) ==
    IF syncView' = "mounted" /\ chainInfo' # null /\ ~loading'
    THEN LET ci == chainInfo'
             vh == validatedHeight(ci)
             nh == blockHeight'
             synced == isSynced(ci, nh)
             starts == vs = "syncing" /\ ~synced /\ ~sessionTrackerStarted
             started == sessionTrackerStarted \/ starts
             L1 == IF starts THEN startSession(Ledger, Val(ci).blocks, nh, now') ELSE Ledger
             L2 == IF started /\ vh > 0
                   THEN updateProgress(L1, vh, calcProgress(vh, nh)) ELSE L1
             completes == wasNotSynced /\ synced /\ vh > 0
             marks == completes /\ L2.completion = null
             L3 == IF marks THEN markComplete(L2, vh, now') ELSE L2
         IN /\ sessionTrackerStarted' = started
            /\ wasNotSynced' = (wasNotSynced /\ ~completes)
            /\ justCompletedSync' = (justCompletedSync \/ completes)
            /\ viewState' = IF marks THEN "complete" ELSE vs
            /\ SetLedger(L3)
    ELSE /\ viewState' = vs
         /\ UNCHANGED <<sessionTrackerStarted, wasNotSynced, justCompletedSync>>
         /\ UNCHANGED ledgerVars

\* the $effect after a step that is no handler of the sync view
SyncEffect ==
    /\ SyncEffectIn(viewState)
    /\ UNCHANGED resumeShown

\* what the reactive effects of the mounted components do after a step
Effects ==
    /\ LayoutEffect
    /\ SyncEffect

\* the cap on the session list (see MaxSessions): no session is opened
\* once the list is full
SessionsWithinBounds ==
    currentSession' # null => Len(sessions') < MaxSessions

\* the cap on outstanding asynchronous work (see MaxPending)
WithinBounds ==
    /\ BagCardinality(checks') + reconnectTimers' <= MaxPending
    /\ BagCardinality(extFetches') <= MaxPending
    /\ heartbeats' <= MaxPending

(***************************************************************************)
(* Initial state: the modules have been loaded, no view is mounted         *)
(***************************************************************************)
Init ==
    /\ status = "disconnected"
    /\ config = DEFAULT_CONFIG
    /\ lastError = null
    /\ lastCheck = null
    /\ stats = null
    /\ blockHeight = 0
    /\ lastBlockHeightFetch = 0
    /\ networkHashrate = 0
    /\ healthCheckTimer = FALSE
    /\ skipAutoHealthCheck = FALSE
    /\ intervalTimers = 0
    /\ reconnectTimers = 0
    /\ checks = EmptyBag
    /\ extFetches = EmptyBag
    /\ storedConfig = null
    /\ now = T0
    /\ requestId = 1
    /\ rpcCalls = {}
    /\ rpcSettled = null
    /\ evaluation = null
    /\ observerMounted = FALSE
    /\ observerPoll = FALSE
    /\ heartbeats = 0
    /\ syncView = "none"
    /\ isFetching = FALSE
    /\ error = null
    /\ loading = TRUE
    /\ chainInfo = null
    /\ syncStatus = null
    /\ blocksPerSecond = 0
    /\ peerCount = 0
    /\ nodeUptime = 0
    /\ nodeStartHeight = 0
    /\ hasSessionStart = FALSE
    /\ sessionStartBlocks = 0
    /\ sessionStartTime = T0
    /\ lastBlockHeight = 0
    /\ lastUpdateTime = T0
    /\ pollInterval = FALSE
    /\ pollIntervalPending = FALSE
    /\ pollTimers = << >>
    /\ externalPoll = FALSE
    /\ batches = EmptyBag
    /\ currentMilestoneNotification = null
    /\ dismissedMilestones = {}
    /\ lastMilestoneCheckHeight = 0
    /\ viewState = "loading"
    /\ sessionTrackerStarted = FALSE
    /\ wasNotSynced = TRUE
    /\ justCompletedSync = FALSE
    /\ mode = "unknown"
    /\ modeLoading = FALSE
    /\ modeLastError = null
    /\ observerStats = null
    /\ blockchainInfo = null
    /\ detects = EmptyBag
    /\ layoutMounted = FALSE
    /\ hasDetected = FALSE
    /\ resumeShown = FALSE
    /\ sessions = << >>
    /\ currentSession = null
    /\ completion = null
    /\ lastKnownHeight = 0
    /\ lastKnownProgress = 0
    /\ ledgerStorage = EmptyStorage

(***************************************************************************)
(* The clock                                                               *)
(***************************************************************************)
Tick ==
    /\ now < MaxNow
    /\ now' = now + TimeStep
    /\ UNCHANGED <<rpcVars, evaluation>>
    /\ UNCHANGED <<connVars, observerVars, syncVars>>
    /\ Effects

(***************************************************************************)
(* Connection Supervisor: the public operations                            *)
(***************************************************************************)
\* connection.connect()
Connect ==
    /\ LET r == startHealthCheck(healthCheckTimer, intervalTimers,
                                 skipAutoHealthCheck, status, checks, config)
       IN /\ healthCheckTimer' = r.healthCheckTimer
          /\ intervalTimers' = r.intervalTimers
          /\ status' = r.status
          /\ checks' = r.checks
    /\ UNCHANGED <<config, lastError, lastCheck, stats, blockHeight,
                   lastBlockHeightFetch, networkHashrate, skipAutoHealthCheck,
                   reconnectTimers, extFetches, storedConfig>>
    /\ UNCHANGED <<now, rpcVars, evaluation, observerVars, syncVars>>
    /\ Effects
    /\ WithinBounds

\* connection.disconnect()
Disconnect_KeepStats ==
    /\ intervalTimers' = stopHealthCheck(healthCheckTimer, intervalTimers)
    /\ healthCheckTimer' = FALSE
    /\ status' = "disconnected"
    /\ UNCHANGED <<config, lastError, lastCheck, stats, blockHeight,
                   lastBlockHeightFetch, networkHashrate, skipAutoHealthCheck,
                   reconnectTimers, checks, extFetches, storedConfig>>
    /\ UNCHANGED <<now, rpcVars, evaluation, observerVars, syncVars>>
    /\ Effects

Disconnect ==
    /\ intervalTimers' = stopHealthCheck(healthCheckTimer, intervalTimers)
    /\ healthCheckTimer' = FALSE
    /\ status' = "disconnected"
    /\ stats' = null
    /\ UNCHANGED <<config, lastError, lastCheck, blockHeight,
                   lastBlockHeightFetch, networkHashrate, skipAutoHealthCheck,
                   reconnectTimers, checks, extFetches, storedConfig>>
    /\ UNCHANGED <<now, rpcVars, evaluation, observerVars, syncVars>>
    /\ Effects

\* { ...s.config, ...config }
mergeConfig(c, p) ==
    [endpoint |-> IF "endpoint" \in DOMAIN p THEN p.endpoint ELSE c.endpoint,
     timeout  |-> IF "timeout" \in DOMAIN p THEN p.timeout ELSE c.timeout]

\* setConfig whose restart still reads the configuration of before the call
SetConfig_StaleRestart(p) ==
    LET newConfig == mergeConfig(config, p)
        r == IF healthCheckTimer
             THEN startHealthCheck(FALSE, stopHealthCheck(healthCheckTimer, intervalTimers),
                                   skipAutoHealthCheck, status, checks, config)
             ELSE [healthCheckTimer |-> healthCheckTimer, intervalTimers |-> intervalTimers,
                   status |-> status, checks |-> checks]
    IN /\ config' = newConfig
       /\ storedConfig' = Some(newConfig)
       /\ healthCheckTimer' = r.healthCheckTimer
       /\ intervalTimers' = r.intervalTimers
       /\ status' = r.status
       /\ checks' = r.checks
       /\ UNCHANGED <<lastError, lastCheck, stats, blockHeight,
                      lastBlockHeightFetch, networkHashrate, skipAutoHealthCheck,
                      reconnectTimers, extFetches>>
       /\ UNCHANGED <<now, rpcVars, evaluation, observerVars, syncVars>>
       /\ Effects
       /\ WithinBounds

\* connection.setConfig(p)
SetConfig(p) ==
    LET newConfig == mergeConfig(config, p)
        r == IF healthCheckTimer
             THEN startHealthCheck(FALSE, stopHealthCheck(healthCheckTimer, intervalTimers),
                                   skipAutoHealthCheck, status, checks, newConfig)
             ELSE [healthCheckTimer |-> healthCheckTimer, intervalTimers |-> intervalTimers,
                   status |-> status, checks |-> checks]
    IN /\ config' = newConfig
       /\ storedConfig' = Some(newConfig)
       /\ healthCheckTimer' = r.healthCheckTimer
       /\ intervalTimers' = r.intervalTimers
       /\ status' = r.status
       /\ checks' = r.checks
       /\ UNCHANGED <<lastError, lastCheck, stats, blockHeight,
                      lastBlockHeightFetch, networkHashrate, skipAutoHealthCheck,
                      reconnectTimers, extFetches>>
       /\ UNCHANGED <<now, rpcVars, evaluation, observerVars, syncVars>>
       /\ Effects
       /\ WithinBounds

\* connection.updateStats(): the call, up to its await
UpdateStats ==
    /\ LET hc == healthCheck(status, checks, config)
       IN /\ status' = hc.status
          /\ checks' = hc.checks
    /\ UNCHANGED <<config, lastError, lastCheck, stats, blockHeight,
                   lastBlockHeightFetch, networkHashrate, healthCheckTimer,
                   skipAutoHealthCheck, intervalTimers, reconnectTimers,
                   extFetches, storedConfig>>
    /\ UNCHANGED <<now, rpcVars, evaluation, observerVars, syncVars>>
    /\ Effects
    /\ WithinBounds

\* connection.stopAutoHealthCheck()
StopAutoHealthCheck ==
    /\ skipAutoHealthCheck' = TRUE
    /\ intervalTimers' = stopHealthCheck(healthCheckTimer, intervalTimers)
    /\ healthCheckTimer' = FALSE
    /\ UNCHANGED <<status, config, lastError, lastCheck, stats, blockHeight,
                   lastBlockHeightFetch, networkHashrate,
                   reconnectTimers, checks, extFetches, storedConfig>>
    /\ UNCHANGED <<now, rpcVars, evaluation, observerVars, syncVars>>
    /\ Effects

\* connection.resumeAutoHealthCheck()
ResumeAutoHealthCheck ==
    /\ skipAutoHealthCheck' = FALSE
    /\ UNCHANGED <<status, config, lastError, lastCheck, stats, blockHeight,
                   lastBlockHeightFetch, networkHashrate, healthCheckTimer,
                   intervalTimers, reconnectTimers, checks, extFetches, storedConfig>>
    /\ UNCHANGED <<now, rpcVars, evaluation, observerVars, syncVars>>
    /\ Effects

\* connection.fetchExternalData(): the call, up to its await
FetchExternalData ==
    /\ extFetches' = fetchExternalData(extFetches)
    /\ UNCHANGED <<status, config, lastError, lastCheck, stats, blockHeight,
                   lastBlockHeightFetch, networkHashrate, healthCheckTimer,
                   skipAutoHealthCheck, intervalTimers, reconnectTimers,
                   checks, storedConfig>>
    /\ UNCHANGED <<now, rpcVars, evaluation, observerVars, syncVars>>
    /\ Effects
    /\ WithinBounds

\* fetchExternalData(): both third-party fetches have settled
FetchExternalDataDone_Overwrite(f, height, hashrate) ==
    /\ f \in BagToSet(extFetches)
    /\ extFetches' = BagRemove(extFetches, f)
    /\ IF height # 0 \/ hashrate # 0
       THEN /\ blockHeight' = height
            /\ networkHashrate' = hashrate
            /\ lastBlockHeightFetch' = f.now
       ELSE UNCHANGED <<blockHeight, networkHashrate, lastBlockHeightFetch>>
    /\ UNCHANGED <<status, config, lastError, lastCheck, stats, healthCheckTimer,
                   skipAutoHealthCheck, intervalTimers, reconnectTimers,
                   checks, storedConfig>>
    /\ UNCHANGED <<now, rpcVars, evaluation, observerVars, syncVars>>
    /\ Effects
    /\ SessionsWithinBounds

FetchExternalDataDone(f, height, hashrate) ==
    /\ f \in BagToSet(extFetches)
    /\ extFetches' = BagRemove(extFetches, f)
    /\ IF height # 0 \/ hashrate # 0
       THEN /\ blockHeight' = OrElse(height, blockHeight)
            /\ networkHashrate' = OrElse(hashrate, networkHashrate)
            /\ lastBlockHeightFetch' = f.now
       ELSE UNCHANGED <<blockHeight, networkHashrate, lastBlockHeightFetch>>
    /\ UNCHANGED <<status, config, lastError, lastCheck, stats, healthCheckTimer,
                   skipAutoHealthCheck, intervalTimers, reconnectTimers,
                   checks, storedConfig>>
    /\ UNCHANGED <<now, rpcVars, evaluation, observerVars, syncVars>>
    /\ Effects
    /\ SessionsWithinBounds

(***************************************************************************)
(* Connection Supervisor: timers                                           *)
(***************************************************************************)
\* a setInterval(healthCheck, HEALTH_CHECK_INTERVAL) timer fires
IntervalTick ==
    /\ intervalTimers > 0
    /\ LET hc == healthCheck(status, checks, config)
       IN /\ status' = hc.status
          /\ checks' = hc.checks
    /\ UNCHANGED <<config, lastError, lastCheck, stats, blockHeight,
                   lastBlockHeightFetch, networkHashrate, healthCheckTimer,
                   skipAutoHealthCheck, intervalTimers, reconnectTimers,
                   extFetches, storedConfig>>
    /\ UNCHANGED <<now, rpcVars, evaluation, observerVars, syncVars>>
    /\ Effects
    /\ WithinBounds

\* a setTimeout(healthCheck, RECONNECT_DELAY) timer fires
ReconnectFire ==
    /\ reconnectTimers > 0
    /\ reconnectTimers' = reconnectTimers - 1
    /\ LET hc == healthCheck(status, checks, config)
       IN /\ status' = hc.status
          /\ checks' = hc.checks
    /\ UNCHANGED <<config, lastError, lastCheck, stats, blockHeight,
                   lastBlockHeightFetch, networkHashrate, healthCheckTimer,
                   skipAutoHealthCheck, intervalTimers,
                   extFetches, storedConfig>>
    /\ UNCHANGED <<now, rpcVars, evaluation, observerVars, syncVars>>
    /\ Effects

(***************************************************************************)
(* healthCheck(): the continuations of its awaits                          *)
(***************************************************************************)
\* lines 203-215: the store update that ends a successful health check
finishHealthCheck(c, s, newBlockHeight, newHashrate, newLastFetch, curHeight, curHashrate) ==
    IF \/ c.isFirstConnection
       \/ statsChanged(c.state_stats, Some(s))
       \/ newBlockHeight # curHeight
       \/ newHashrate # curHashrate
    THEN /\ status' = "connected"
         /\ lastError' = null
         /\ lastCheck' = Some(now)
         /\ stats' = Some(s)
         /\ blockHeight' = OrElse(newBlockHeight, blockHeight)
         /\ lastBlockHeightFetch' = newLastFetch
         /\ networkHashrate' = OrElse(newHashrate, networkHashrate)
    ELSE UNCHANGED <<status, lastError, lastCheck, stats, blockHeight,
                     lastBlockHeightFetch, networkHashrate>>

\* getObserverStats resolved with the snapshot s
HealthCheckRpcOk(c, s) ==
    /\ c \in BagToSet(checks)
    /\ c.phase = "rpc"
    /\ LET needsExternalData ==
               \/ blockHeight = 0
               \/ now - lastBlockHeightFetch > BLOCK_HEIGHT_REFRESH_INTERVAL
       IN IF needsExternalData
          THEN /\ checks' = BagAdd(BagRemove(checks, c),
                                   [phase |-> "ext",
                                    isFirstConnection |-> c.isFirstConnection,
                                    state_stats |-> c.state_stats,
                                    cfg |-> c.cfg,
                                    stats |-> s,
                                    now |-> now,
                                    curHeight |-> blockHeight,
                                    curHashrate |-> networkHashrate])
               /\ UNCHANGED <<status, lastError, lastCheck, stats, blockHeight,
                              lastBlockHeightFetch, networkHashrate>>
          ELSE /\ checks' = BagRemove(checks, c)
               /\ finishHealthCheck(c, s, blockHeight, networkHashrate,
                                    lastBlockHeightFetch, blockHeight, networkHashrate)
    /\ UNCHANGED <<config, healthCheckTimer, skipAutoHealthCheck, intervalTimers,
                   reconnectTimers, extFetches, storedConfig>>
    /\ UNCHANGED <<now, rpcVars, evaluation, observerVars, syncVars>>
    /\ Effects

\* Promise.all([fetchBlockHeight(), fetchNetworkHashrate()]) settled
HealthCheckExtDone(c, height, hashrate) ==
    /\ c \in BagToSet(checks)
    /\ c.phase = "ext"
    /\ checks' = BagRemove(checks, c)
    /\ finishHealthCheck(c, c.stats, height, hashrate, c.now, c.curHeight, c.curHashrate)
    /\ UNCHANGED <<config, healthCheckTimer, skipAutoHealthCheck, intervalTimers,
                   reconnectTimers, extFetches, storedConfig>>
    /\ UNCHANGED <<now, rpcVars, evaluation, observerVars, syncVars>>
    /\ Effects

\* the catch block without stats: null (line 223)
HealthCheckRpcFail_KeepStats(c, kind) ==
    /\ c \in BagToSet(checks)
    /\ c.phase = "rpc"
    /\ checks' = BagRemove(checks, c)
    /\ status' = "error"
    /\ lastError' = Some(rpcCallError(kind, "getobserverstats", c.cfg))
    /\ reconnectTimers' = reconnectTimers + 1
    /\ UNCHANGED <<config, lastCheck, stats, blockHeight, lastBlockHeightFetch,
                   networkHashrate, healthCheckTimer, skipAutoHealthCheck,
                   intervalTimers, extFetches, storedConfig>>
    /\ UNCHANGED <<now, rpcVars, evaluation, observerVars, syncVars>>
    /\ Effects

\* getObserverStats rejected: the catch block
HealthCheckRpcFail(c, kind) ==
    /\ c \in BagToSet(checks)
    /\ c.phase = "rpc"
    /\ checks' = BagRemove(checks, c)
    /\ status' = "error"
    /\ lastError' = Some(rpcCallError(kind, "getobserverstats", c.cfg))
    /\ stats' = null
    /\ reconnectTimers' = reconnectTimers + 1
    /\ UNCHANGED <<config, lastCheck, blockHeight, lastBlockHeightFetch,
                   networkHashrate, healthCheckTimer, skipAutoHealthCheck,
                   intervalTimers, extFetches, storedConfig>>
    /\ UNCHANGED <<now, rpcVars, evaluation, observerVars, syncVars>>
    /\ Effects

(***************************************************************************)
(* Root layout: connection.connect() when the application loads is the     *)
(* action Connect.                                                         *)
(*                                                                         *)
(* Observer view                                                           *)
(***************************************************************************)
\* connection.updateStatsFromBatch(s): the store after the call
UpdateStatsFromBatch(s) ==
    IF statsChanged(stats, Some(s)) \/ status # "connected"
    THEN /\ status' = "connected"
         /\ lastError' = null
         /\ lastCheck' = Some(now)
         /\ stats' = Some(s)
    ELSE UNCHANGED <<status, lastError, lastCheck, stats>>

\* onMount
ObserverMount ==
    /\ ~observerMounted
    /\ syncView # "mounted"
    /\ observerMounted' = TRUE
    \* connection.stopAutoHealthCheck()
    /\ skipAutoHealthCheck' = TRUE
    /\ intervalTimers' = stopHealthCheck(healthCheckTimer, intervalTimers)
    /\ healthCheckTimer' = FALSE
    \* heartbeat(); pollInterval = setInterval(heartbeat, HEARTBEAT_INTERVAL)
    /\ heartbeats' = heartbeats + 1
    /\ observerPoll' = TRUE
    /\ UNCHANGED <<status, config, lastError, lastCheck, stats, blockHeight,
                   lastBlockHeightFetch, networkHashrate,
                   reconnectTimers, checks, extFetches, storedConfig>>
    /\ UNCHANGED <<now, rpcVars, evaluation, syncVars>>
    /\ Effects
    /\ WithinBounds

\* the observer view's setInterval(heartbeat) fires
ObserverTick ==
    /\ observerPoll
    /\ heartbeats' = heartbeats + 1
    /\ UNCHANGED <<observerMounted, observerPoll>>
    /\ UNCHANGED <<connVars, now, rpcVars, evaluation, syncVars>>
    /\ Effects
    /\ WithinBounds

\* heartbeat(): getObserverDataBatch resolved with the snapshot s
ObserverHeartbeatOk(s) ==
    /\ heartbeats > 0
    /\ heartbeats' = heartbeats - 1
    /\ UpdateStatsFromBatch(s)
    /\ UNCHANGED <<config, blockHeight, lastBlockHeightFetch, networkHashrate,
                   healthCheckTimer, skipAutoHealthCheck, intervalTimers,
                   reconnectTimers, checks, extFetches, storedConfig>>
    /\ UNCHANGED <<observerMounted, observerPoll>>
    /\ UNCHANGED <<now, rpcVars, evaluation, syncVars>>
    /\ Effects

\* heartbeat(): getObserverDataBatch rejected; the catch block only logs
ObserverHeartbeatFail ==
    /\ heartbeats > 0
    /\ heartbeats' = heartbeats - 1
    /\ UNCHANGED <<observerMounted, observerPoll>>
    /\ UNCHANGED <<connVars, now, rpcVars, evaluation, syncVars>>
    /\ Effects

\* onDestroy
ObserverDestroy ==
    /\ observerMounted
    /\ observerMounted' = FALSE
    /\ observerPoll' = FALSE
    \* connection.connect()
    /\ LET r == startHealthCheck(healthCheckTimer, intervalTimers,
                                 skipAutoHealthCheck, status, checks, config)
       IN /\ healthCheckTimer' = r.healthCheckTimer
          /\ intervalTimers' = r.intervalTimers
          /\ status' = r.status
          /\ checks' = r.checks
    /\ UNCHANGED heartbeats
    /\ UNCHANGED <<config, lastError, lastCheck, stats, blockHeight,
                   lastBlockHeightFetch, networkHashrate, skipAutoHealthCheck,
                   reconnectTimers, extFetches, storedConfig>>
    /\ UNCHANGED <<now, rpcVars, evaluation, syncVars>>
    /\ Effects
    /\ WithinBounds

(***************************************************************************)
(* Sync view                                                               *)
(***************************************************************************)
\* a destroyed instance with no timer pending and no request awaiting does
\* nothing any more
SyncQuiescent == pollTimers = << >> /\ batches = EmptyBag

\* onMount of a fresh component instance
SyncMount ==
    /\ syncView # "mounted"
    /\ syncView = "destroyed" => SyncQuiescent
    /\ ~observerMounted
    /\ syncView' = "mounted"
    \* the instance's initial state
    /\ error' = null
    /\ loading' = TRUE
    /\ chainInfo' = null
    /\ syncStatus' = null
    /\ blocksPerSecond' = 0
    /\ peerCount' = 0
    /\ nodeUptime' = 0
    /\ nodeStartHeight' = 0
    /\ hasSessionStart' = FALSE
    /\ sessionStartBlocks' = 0
    /\ sessionStartTime' = now
    /\ lastBlockHeight' = 0
    /\ lastUpdateTime' = now
    /\ currentMilestoneNotification' = null
    /\ dismissedMilestones' = {}
    /\ lastMilestoneCheckHeight' = 0
    \* connection.stopAutoHealthCheck()
    /\ skipAutoHealthCheck' = TRUE
    /\ intervalTimers' = stopHealthCheck(healthCheckTimer, intervalTimers)
    /\ healthCheckTimer' = FALSE
    \* fetchChainInfo(): isFetching is false in a fresh instance
    /\ isFetching' = TRUE
    /\ batches' = SetToBag({[poll |-> FALSE, cfg |-> config]})
    \* connection.fetchExternalData()
    /\ extFetches' = fetchExternalData(extFetches)
    \* pollInterval = setTimeout(poll, POLL_INTERVAL)
    /\ pollTimers' = <<POLL_INTERVAL>>
    /\ pollInterval' = TRUE
    /\ pollIntervalPending' = TRUE
    \* externalPoll = setInterval(...)
    /\ externalPoll' = TRUE
    \* the instance's session tracking state; shouldShowResume()
    /\ viewState' = IF /\ ~resumeShown
                       /\ (Len(sessions) > 0 \/ lastKnownHeight > 0)
                       /\ completion = null
                    THEN "resume" ELSE "syncing"
    /\ sessionTrackerStarted' = FALSE
    /\ wasNotSynced' = TRUE
    /\ justCompletedSync' = FALSE
    /\ UNCHANGED resumeShown
    /\ UNCHANGED <<status, config, lastError, lastCheck, stats, blockHeight,
                   lastBlockHeightFetch, networkHashrate,
                   reconnectTimers, checks, storedConfig>>
    /\ UNCHANGED <<now, rpcVars, evaluation, observerVars>>
    /\ UNCHANGED ledgerVars
    /\ LayoutEffect
    /\ WithinBounds

\* pollInterval = setTimeout(poll, currentInterval), the last line of poll()
schedulePoll_NoBackoff(timers, success) ==
    Append(timers, POLL_INTERVAL)

schedulePoll(timers, success) ==
    Append(timers, IF success THEN POLL_INTERVAL ELSE ERROR_BACKOFF_INTERVAL)

\* poll() with a fetchChainInfo that lacks the isFetching test of line 207
SyncPollFire_NoGuard(i) ==
    /\ i \in 1..Len(pollTimers)
    /\ isFetching' = TRUE
    /\ batches' = BagAdd(batches, [poll |-> TRUE, cfg |-> config])
    /\ pollTimers' = RemoveAt(pollTimers, i)
    /\ pollIntervalPending' = (pollIntervalPending /\ i # Len(pollTimers))
    /\ UNCHANGED pollInterval
    /\ UNCHANGED <<syncView, error, loading, chainInfo, syncStatus, blocksPerSecond,
                   peerCount, nodeUptime, nodeStartHeight,
                   hasSessionStart, sessionStartBlocks, sessionStartTime,
                   lastBlockHeight, lastUpdateTime, externalPoll, milestoneVars>>
    /\ UNCHANGED <<connVars, now, rpcVars, evaluation, observerVars>>
    /\ Effects

\* the i-th pending setTimeout(poll) fires: poll() up to its await, and
\* past it when fetchChainInfo returns without awaiting
SyncPollFire(i) ==
    /\ i \in 1..Len(pollTimers)
    /\ LET rest == RemoveAt(pollTimers, i)
       IN IF isFetching
          THEN \* fetchChainInfo: if (isFetching) return !error
               /\ pollTimers' = schedulePoll(rest, Not(error))
               /\ pollInterval' = TRUE
               /\ pollIntervalPending' = TRUE
               /\ UNCHANGED <<isFetching, batches>>
          ELSE /\ isFetching' = TRUE
               /\ batches' = BagAdd(batches, [poll |-> TRUE, cfg |-> config])
               /\ pollTimers' = rest
               /\ pollIntervalPending' =
                      (pollIntervalPending /\ i # Len(pollTimers))
               /\ UNCHANGED pollInterval
    /\ UNCHANGED <<syncView, error, loading, chainInfo, syncStatus, blocksPerSecond,
                   peerCount, nodeUptime, nodeStartHeight,
                   hasSessionStart, sessionStartBlocks, sessionStartTime,
                   lastBlockHeight, lastUpdateTime, externalPoll, milestoneVars>>
    /\ UNCHANGED <<connVars, now, rpcVars, evaluation, observerVars>>
    /\ Effects

\* the continuation of poll() after its await, when b was called by poll()
\* (the initial fetch of onMount has no continuation)
afterFetch(b, success) ==
    IF b.poll
    THEN /\ pollTimers' = schedulePoll(pollTimers, success)
         /\ pollInterval' = TRUE
         /\ pollIntervalPending' = TRUE
    ELSE UNCHANGED <<pollTimers, pollInterval, pollIntervalPending>>

\* fetchChainInfo past its await: the batch resolved and getSyncDataBatch
\* returned the object r
fetchChainInfoResolved(b, r) ==
    /\ b \in BagToSet(batches)
    /\ batches' = BagRemove(batches, b)
    /\ LET started == ~hasSessionStart /\ r.chainInfo.blocks > 0
       IN /\ peerCount' = r.observerStats.peer_count
          /\ nodeUptime' = r.observerStats.uptime_seconds
          /\ nodeStartHeight' = r.observerStats.start_height
          /\ hasSessionStart' = (hasSessionStart \/ started)
          /\ sessionStartBlocks' = IF started THEN r.chainInfo.blocks ELSE sessionStartBlocks
          /\ sessionStartTime' = IF started THEN now ELSE sessionStartTime
          /\ IF "syncStatus" \in DOMAIN r
             THEN /\ blocksPerSecond' = r.syncStatus.blocks_per_second
                  /\ lastBlockHeight' = r.chainInfo.blocks
                  /\ lastUpdateTime' = now
                  /\ chainInfo' = Some(r.chainInfo)
                  /\ syncStatus' = Some(r.syncStatus)
                  /\ error' = null
                  /\ SetMilestones(checkMilestones(Milestones, r.chainInfo.blocks))
                  /\ afterFetch(b, TRUE)
             ELSE \* status is undefined: status.blocks_per_second throws
                  /\ lastBlockHeight' = IF started THEN r.chainInfo.blocks ELSE lastBlockHeight
                  /\ lastUpdateTime' = IF started THEN now ELSE lastUpdateTime
                  /\ error' = Some(TypeErrorMessage("blocks_per_second"))
                  /\ afterFetch(b, FALSE)
                  /\ UNCHANGED <<blocksPerSecond, chainInfo, syncStatus>>
                  /\ UNCHANGED milestoneVars
    /\ loading' = FALSE
    /\ isFetching' = FALSE
    /\ UNCHANGED <<syncView, externalPoll>>
    /\ UNCHANGED <<connVars, now, rpcVars, evaluation, observerVars>>
    /\ Effects
    /\ SessionsWithinBounds

\* fetchChainInfo: the batch resolved with the results of its calls
SyncBatchOk(b, info, ostats) ==
    fetchChainInfoResolved(b, getSyncDataBatch(<<info, ostats>>))

\* fetchChainInfo: the batch of three calls resolved with its results
SyncBatchOkWithStatus(b, info, ostats, sstatus) ==
    fetchChainInfoResolved(b, getSyncDataBatchWithStatus(<<info, ostats, sstatus>>))

\* fetchChainInfo: the batch rejected; the catch block
SyncBatchFail(b, kind) ==
    /\ b \in BagToSet(batches)
    /\ batches' = BagRemove(batches, b)
    /\ error' = Some(rpcBatchCallError(kind, <<"getblockchaininfo", "getobserverstats">>, b.cfg))
    /\ loading' = FALSE
    /\ isFetching' = FALSE
    /\ afterFetch(b, FALSE)
    /\ UNCHANGED <<syncView, chainInfo, syncStatus, blocksPerSecond,
                   peerCount, nodeUptime, nodeStartHeight,
                   hasSessionStart, sessionStartBlocks, sessionStartTime,
                   lastBlockHeight, lastUpdateTime, externalPoll, milestoneVars>>
    /\ UNCHANGED <<connVars, now, rpcVars, evaluation, observerVars>>
    /\ Effects

\* the sync view's setInterval(() => connection.fetchExternalData()) fires
SyncExternalPollTick ==
    /\ externalPoll
    /\ extFetches' = fetchExternalData(extFetches)
    /\ UNCHANGED <<status, config, lastError, lastCheck, stats, blockHeight,
                   lastBlockHeightFetch, networkHashrate, healthCheckTimer,
                   skipAutoHealthCheck, intervalTimers, reconnectTimers,
                   checks, storedConfig>>
    /\ UNCHANGED <<now, rpcVars, evaluation, observerVars, syncVars>>
    /\ Effects
    /\ WithinBounds

\* the cleanup function without the endSession of lines 415-417
SyncTeardown_NoEndSession ==
    /\ syncView = "mounted"
    /\ syncView' = "destroyed"
    \* if (pollInterval) clearTimeout(pollInterval)
    /\ pollTimers' = IF pollInterval /\ pollIntervalPending
                     THEN RemoveAt(pollTimers, Len(pollTimers))
                     ELSE pollTimers
    /\ pollIntervalPending' = FALSE
    /\ externalPoll' = FALSE
    /\ UNCHANGED ledgerVars
    /\ UNCHANGED effectVars
    \* connection.resumeAutoHealthCheck(); connection.connect()
    /\ skipAutoHealthCheck' = FALSE
    /\ LET r == startHealthCheck(healthCheckTimer, intervalTimers,
                                 FALSE, status, checks, config)
       IN /\ healthCheckTimer' = r.healthCheckTimer
          /\ intervalTimers' = r.intervalTimers
          /\ status' = r.status
          /\ checks' = r.checks
    /\ UNCHANGED <<isFetching, error, loading, chainInfo, syncStatus, blocksPerSecond,
                   peerCount, nodeUptime, nodeStartHeight,
                   hasSessionStart, sessionStartBlocks, sessionStartTime,
                   lastBlockHeight, lastUpdateTime, pollInterval, batches,
                   milestoneVars>>
    /\ UNCHANGED <<config, lastError, lastCheck, stats, blockHeight,
                   lastBlockHeightFetch, networkHashrate,
                   reconnectTimers, extFetches, storedConfig>>
    /\ UNCHANGED <<now, rpcVars, evaluation, observerVars>>
    /\ LayoutEffect
    /\ WithinBounds

\* the cleanup function returned from onMount, then onDestroy
SyncTeardown ==
    /\ syncView = "mounted"
    /\ syncView' = "destroyed"
    \* if (pollInterval) clearTimeout(pollInterval)
    /\ pollTimers' = IF pollInterval /\ pollIntervalPending
                     THEN RemoveAt(pollTimers, Len(pollTimers))
                     ELSE pollTimers
    /\ pollIntervalPending' = FALSE
    /\ externalPoll' = FALSE
    \* if (sessionTrackerStarted && chainInfo) sessionHistory.endSession(...)
    /\ IF sessionTrackerStarted /\ chainInfo # null
       THEN SetLedger(endSession(Ledger, Val(chainInfo).blocks, now))
       ELSE UNCHANGED ledgerVars
    /\ UNCHANGED effectVars
    \* connection.resumeAutoHealthCheck(); connection.connect()
    /\ skipAutoHealthCheck' = FALSE
    /\ LET r == startHealthCheck(healthCheckTimer, intervalTimers,
                                 FALSE, status, checks, config)
       IN /\ healthCheckTimer' = r.healthCheckTimer
          /\ intervalTimers' = r.intervalTimers
          /\ status' = r.status
          /\ checks' = r.checks
    /\ UNCHANGED <<isFetching, error, loading, chainInfo, syncStatus, blocksPerSecond,
                   peerCount, nodeUptime, nodeStartHeight,
                   hasSessionStart, sessionStartBlocks, sessionStartTime,
                   lastBlockHeight, lastUpdateTime, pollInterval, batches,
                   milestoneVars>>
    /\ UNCHANGED <<config, lastError, lastCheck, stats, blockHeight,
                   lastBlockHeightFetch, networkHashrate,
                   reconnectTimers, extFetches, storedConfig>>
    /\ UNCHANGED <<now, rpcVars, evaluation, observerVars>>
    /\ LayoutEffect
    /\ WithinBounds

\* handleContinueSync(): the user leaves the resume screen
HandleContinueSync ==
    /\ syncView = "mounted"
    /\ viewState = "resume"
    /\ resumeShown' = TRUE
    /\ UNCHANGED <<connVars, now, rpcVars, evaluation, observerVars, syncVars, modeVars>>
    /\ SyncEffectIn("syncing")
    /\ SessionsWithinBounds

\* handleEnterDashboard(): the user leaves the completion screen
HandleEnterDashboard ==
    /\ syncView = "mounted"
    /\ viewState = "complete"
    /\ UNCHANGED resumeShown
    /\ UNCHANGED <<connVars, now, rpcVars, evaluation, observerVars, syncVars, modeVars>>
    /\ SyncEffectIn("syncing")
    /\ SessionsWithinBounds

(***************************************************************************)
(* Spec: the Connection Supervisor's heartbeat under every sequence of     *)
(* calls of the public operations that drive it, with a third-party        *)
(* source that answers.                                                    *)
(***************************************************************************)
\* connection.updateStatsFromBatch(s), called with a snapshot of any batch
UpdateStatsFromBatchCall(s) ==
    /\ UpdateStatsFromBatch(s)
    /\ UNCHANGED <<config, blockHeight, lastBlockHeightFetch, networkHashrate,
                   healthCheckTimer, skipAutoHealthCheck, intervalTimers,
                   reconnectTimers, checks, extFetches, storedConfig>>
    /\ UNCHANGED <<now, rpcVars, evaluation, observerVars, syncVars>>
    /\ Effects

Next ==
    \/ Connect
    \/ Disconnect
    \/ \E p \in Partials : SetConfig(p)
    \/ UpdateStats
    \/ \E s \in StatsSamples : UpdateStatsFromBatchCall(s)
    \/ StopAutoHealthCheck
    \/ ResumeAutoHealthCheck
    \/ IntervalTick
    \/ ReconnectFire
    \/ \E c \in BagToSet(checks), s \in StatsSamples : HealthCheckRpcOk(c, s)
    \/ \E c \in BagToSet(checks) : HealthCheckExtDone(c, 800000, 500)
    \/ \E c \in BagToSet(checks), k \in FailureKinds : HealthCheckRpcFail(c, k)

Spec == Init /\ [][Next]_vars

(***************************************************************************)
(* SpecApp: the application. The root layout connects, the user moves      *)
(* between the sync view, the observer view and the other pages.           *)
(***************************************************************************)
NextApp ==
    \/ Connect
    \/ ObserverMount
    \/ ObserverTick
    \/ \E s \in StatsSamples : ObserverHeartbeatOk(s)
    \/ ObserverHeartbeatFail
    \/ ObserverDestroy
    \/ SyncMount
    \/ \E i \in 1..Len(pollTimers) : SyncPollFire(i)
    \/ \E b \in BagToSet(batches), info \in ChainInfoSamples : SyncBatchOk(b, info, StatsBase)
    \/ \E b \in BagToSet(batches) : SyncBatchFail(b, "timeout")
    \/ SyncExternalPollTick
    \/ SyncTeardown
    \/ \E f \in BagToSet(extFetches) : FetchExternalDataDone(f, 800000, 500)
    \/ IntervalTick
    \/ ReconnectFire
    \/ \E c \in BagToSet(checks) : HealthCheckRpcOk(c, StatsBase)
    \/ \E c \in BagToSet(checks) : HealthCheckExtDone(c, 800000, 500)
    \/ \E c \in BagToSet(checks) : HealthCheckRpcFail(c, "timeout")

SpecApp == Init /\ [][NextApp]_vars

(***************************************************************************)
(* SpecClock: the Connection Supervisor with time passing. The heartbeat   *)
(* runs, views push snapshots and ask for the third-party reference data,  *)
(* and the third-party source answers or fails (0).                        *)
(***************************************************************************)
NextClock ==
    \/ Tick
    \/ Connect
    \/ IntervalTick
    \/ \E s \in StatsSamples : UpdateStatsFromBatchCall(s)
    \/ FetchExternalData
    \/ \E f \in BagToSet(extFetches), h \in ExtHeights, r \in ExtHashrates :
           FetchExternalDataDone(f, h, r)
    \/ \E c \in BagToSet(checks), s \in StatsSamples : HealthCheckRpcOk(c, s)
    \/ \E c \in BagToSet(checks), h \in ExtHeights, r \in ExtHashrates :
           HealthCheckExtDone(c, h, r)

SpecClock == Init /\ [][NextClock]_vars

(***************************************************************************)
(* SpecExternal: the cached network height and hashrate under third-party  *)
(* fetches that succeed, fail or yield 0, failed health checks, retries    *)
(* and disconnects, several of them outstanding at a time                  *)
(***************************************************************************)
NextExternal ==
    \/ Connect
    \/ Disconnect
    \/ FetchExternalData
    \/ \E f \in BagToSet(extFetches), h \in ExtHeights, r \in ExtHashrates :
           FetchExternalDataDone(f, h, r)
    \/ \E c \in BagToSet(checks) : HealthCheckRpcOk(c, StatsBase)
    \/ \E c \in BagToSet(checks), h \in ExtHeights, r \in ExtHashrates :
           HealthCheckExtDone(c, h, r)
    \/ \E c \in BagToSet(checks) : HealthCheckRpcFail(c, "network")
    \/ ReconnectFire

SpecExternal == Init /\ [][NextExternal]_vars

(***************************************************************************)
(* Node mode: the operations of the store and the continuations of detect  *)
(***************************************************************************)
\* ObserverStats snapshots of a node in either mode
ModeStatsSamples ==
    {StatsBase, [StatsBase EXCEPT !.mode = "full"]}

\* BlockchainInfo snapshots: still in initial block download, pruned or not,
\* and at the tip
ModeInfoSamples ==
    {[blocks |-> 480000, headers |-> 800000, initialblockdownload |-> TRUE, pruned |-> FALSE],
     [blocks |-> 480000, headers |-> 800000, initialblockdownload |-> TRUE, pruned |-> TRUE],
     [blocks |-> 800000, headers |-> 800000, initialblockdownload |-> FALSE, pruned |-> FALSE]}

\* the cap on outstanding detect calls (see MaxPending)
DetectsWithinBounds == BagCardinality(detects') <= MaxPending

\* nodeMode.detect(config): the call, up to its first await
ModeDetect(cfgv) ==
    /\ detect(cfgv)
    /\ UNCHANGED <<layoutMounted, hasDetected>>
    /\ UNCHANGED <<connVars, now, rpcVars, evaluation, observerVars, syncVars, effectVars, ledgerVars>>
    /\ DetectsWithinBounds

\* lines 106-115: the store update that ends a successful detect
finishDetect(s, info) ==
    /\ mode' = detectMode(Some(s), info)
    /\ modeLoading' = FALSE
    /\ modeLastError' = null
    /\ observerStats' = Some(s)
    /\ blockchainInfo' = info

\* detect: getObserverStats resolved with the snapshot s
DetectStatsOk(d, s) ==
    /\ d \in BagToSet(detects)
    /\ d.phase = "stats"
    /\ IF s.mode = "full"
       THEN /\ detects' = BagAdd(BagRemove(detects, d),
                                 [phase |-> "info", cfg |-> d.cfg, stats |-> s])
            /\ UNCHANGED <<mode, modeLoading, modeLastError, observerStats, blockchainInfo>>
       ELSE /\ detects' = BagRemove(detects, d)
            /\ finishDetect(s, null)
    /\ UNCHANGED <<layoutMounted, hasDetected>>
    /\ UNCHANGED <<connVars, now, rpcVars, evaluation, observerVars, syncVars, effectVars, ledgerVars>>

\* detect: getBlockchainInfo resolved with info
DetectInfoOk(d, info) ==
    /\ d \in BagToSet(detects)
    /\ d.phase = "info"
    /\ detects' = BagRemove(detects, d)
    /\ finishDetect(d.stats, Some(info))
    /\ UNCHANGED <<layoutMounted, hasDetected>>
    /\ UNCHANGED <<connVars, now, rpcVars, evaluation, observerVars, syncVars, effectVars, ledgerVars>>

\* detect: getBlockchainInfo rejected; the inner catch
DetectInfoFail(d) ==
    /\ d \in BagToSet(detects)
    /\ d.phase = "info"
    /\ detects' = BagRemove(detects, d)
    /\ finishDetect(d.stats, null)
    /\ UNCHANGED <<layoutMounted, hasDetected>>
    /\ UNCHANGED <<connVars, now, rpcVars, evaluation, observerVars, syncVars, effectVars, ledgerVars>>

\* detect: getObserverStats rejected; the outer catch
DetectStatsFail(d, kind) ==
    /\ d \in BagToSet(detects)
    /\ d.phase = "stats"
    /\ detects' = BagRemove(detects, d)
    /\ mode' = "unknown"
    /\ modeLoading' = FALSE
    /\ modeLastError' = Some(rpcCallError(kind, "getobserverstats", d.cfg))
    /\ UNCHANGED <<observerStats, blockchainInfo>>
    /\ UNCHANGED <<layoutMounted, hasDetected>>
    /\ UNCHANGED <<connVars, now, rpcVars, evaluation, observerVars, syncVars, effectVars, ledgerVars>>

\* nodeMode.updateFromStats(s, info); info is null when the argument is
\* omitted or null
ModeUpdateFromStats(s, info) ==
    /\ LET merged == IF info # null THEN info ELSE blockchainInfo
       IN /\ mode' = detectMode(Some(s), merged)
          /\ observerStats' = Some(s)
          /\ blockchainInfo' = merged
    /\ UNCHANGED <<modeLoading, modeLastError, detects, layoutMounted, hasDetected>>
    /\ UNCHANGED <<connVars, now, rpcVars, evaluation, observerVars, syncVars, effectVars, ledgerVars>>

\* nodeMode.reset()
ModeReset ==
    /\ mode' = "unknown"
    /\ modeLoading' = FALSE
    /\ modeLastError' = null
    /\ observerStats' = null
    /\ blockchainInfo' = null
    /\ UNCHANGED <<detects, layoutMounted, hasDetected>>
    /\ UNCHANGED <<connVars, now, rpcVars, evaluation, observerVars, syncVars, effectVars, ledgerVars>>

\* the root layout's onMount: connection.connect(); its $effect is registered
LayoutMount ==
    /\ ~layoutMounted
    /\ layoutMounted' = TRUE
    /\ LET r == startHealthCheck(healthCheckTimer, intervalTimers,
                                 skipAutoHealthCheck, status, checks, config)
       IN /\ healthCheckTimer' = r.healthCheckTimer
          /\ intervalTimers' = r.intervalTimers
          /\ status' = r.status
          /\ checks' = r.checks
    /\ UNCHANGED <<config, lastError, lastCheck, stats, blockHeight,
                   lastBlockHeightFetch, networkHashrate, skipAutoHealthCheck,
                   reconnectTimers, extFetches, storedConfig>>
    /\ layoutEffect(TRUE, status', config')
    /\ UNCHANGED <<now, rpcVars, evaluation, observerVars, syncVars, effectVars, ledgerVars>>
    /\ WithinBounds

(***************************************************************************)
(* SpecMode: the mode store under every sequence of calls of its           *)
(* operations, with a node that answers in either mode or fails.           *)
(***************************************************************************)
NextMode ==
    \/ \E e \in Endpoints : ModeDetect([endpoint |-> e, timeout |-> 15000])
    \/ \E d \in BagToSet(detects), s \in ModeStatsSamples : DetectStatsOk(d, s)
    \/ \E d \in BagToSet(detects), info \in ModeInfoSamples : DetectInfoOk(d, info)
    \/ \E d \in BagToSet(detects) : DetectInfoFail(d)
    \/ \E d \in BagToSet(detects), k \in FailureKinds : DetectStatsFail(d, k)
    \/ \E s \in ModeStatsSamples, info \in {null} \cup {Some(i) : i \in ModeInfoSamples} :
           ModeUpdateFromStats(s, info)
    \/ ModeReset

SpecMode == Init /\ [][NextMode]_vars

(***************************************************************************)
(* SpecLayout: the application outside the sync view. The root layout      *)
(* connects and detects the mode once the store is connected; the          *)
(* heartbeat and the observer view keep delivering snapshots.              *)
(***************************************************************************)
NextLayout ==
    \/ LayoutMount
    \/ IntervalTick
    \/ ReconnectFire
    \/ \E c \in BagToSet(checks), s \in ModeStatsSamples : HealthCheckRpcOk(c, s)
    \/ \E c \in BagToSet(checks) : HealthCheckExtDone(c, 800000, 500)
    \/ \E c \in BagToSet(checks) : HealthCheckRpcFail(c, "timeout")
    \/ ObserverMount
    \/ ObserverTick
    \/ \E s \in ModeStatsSamples : ObserverHeartbeatOk(s)
    \/ ObserverHeartbeatFail
    \/ ObserverDestroy
    \/ \E d \in BagToSet(detects), s \in ModeStatsSamples : DetectStatsOk(d, s)
    \/ \E d \in BagToSet(detects), info \in ModeInfoSamples : DetectInfoOk(d, info)
    \/ \E d \in BagToSet(detects) : DetectInfoFail(d)
    \/ \E d \in BagToSet(detects) : DetectStatsFail(d, "timeout")

SpecLayout == Init /\ [][NextLayout]_vars

(***************************************************************************)
(* Session History: the operations of the store                            *)
(***************************************************************************)
\* block heights and progress values the operations are called with
LedgerHeights == {480000, 800000}
LedgerProgress == {60, 100}

\* what the ledger operations leave alone
LedgerFrame ==
    UNCHANGED <<connVars, now, rpcVars, evaluation, observerVars, syncVars, effectVars, modeVars>>

\* sessionHistory.startSession(currentBlocks, networkHeight), called while
\* the list holds fewer than limit sessions
LedgerStartSessionWithin(limit, currentBlocks, networkHeight) ==
    /\ Len(sessions) < limit
    /\ SetLedger(startSession(Ledger, currentBlocks, networkHeight, now))
    /\ LedgerFrame

\* sessionHistory.startSession(currentBlocks, networkHeight)
LedgerStartSession(currentBlocks, networkHeight) ==
    LedgerStartSessionWithin(MaxSessions, currentBlocks, networkHeight)

\* sessionHistory.updateProgress(currentBlocks, progress)
LedgerUpdateProgress(currentBlocks, progress) ==
    /\ SetLedger(updateProgress(Ledger, currentBlocks, progress))
    /\ LedgerFrame

\* sessionHistory.endSession(endBlocks)
LedgerEndSession(endBlocks) ==
    /\ SetLedger(endSession(Ledger, endBlocks, now))
    /\ LedgerFrame

\* sessionHistory.markComplete(totalBlocks)
LedgerMarkComplete(totalBlocks) ==
    /\ SetLedger(markComplete(Ledger, totalBlocks, now))
    /\ LedgerFrame

\* sessionHistory.reset()
LedgerReset ==
    /\ SetLedger(reset(Ledger))
    /\ LedgerFrame

\* the page is loaded again: the store is created from loadInitialState()
LedgerReload ==
    /\ SetLedger(loadInitialState(ledgerStorage))
    /\ LedgerFrame

(***************************************************************************)
(* SpecLedger: the Session History store under every sequence of calls of  *)
(* its operations, page reloads and the passing of time.                   *)
(***************************************************************************)
NextLedger ==
    \/ Tick
    \/ \E b \in LedgerHeights : LedgerStartSession(b, 800000)
    \/ \E b \in LedgerHeights, pr \in LedgerProgress : LedgerUpdateProgress(b, pr)
    \/ \E b \in LedgerHeights : LedgerEndSession(b)
    \/ \E b \in LedgerHeights : LedgerMarkComplete(b)
    \/ LedgerReset
    \/ LedgerReload

SpecLedger == Init /\ [][NextLedger]_vars

(***************************************************************************)
(* SpecSessions: sessions started and ended one after another, with and    *)
(* without time passing in between, until the list holds one more than     *)
(* MaxSessions                                                             *)
(***************************************************************************)
NextSessions ==
    \/ Tick
    \/ \E b \in LedgerHeights : LedgerStartSessionWithin(MaxSessions + 1, b, 800000)
    \/ \E b \in LedgerHeights : LedgerEndSession(b)
    \/ LedgerReload

SpecSessions == Init /\ [][NextSessions]_vars

(***************************************************************************)
(* Session History: what localStorage can hold when the page is loaded     *)
(***************************************************************************)
\* a session as an earlier page load saved it
StoredSession ==
    [id |-> toISOString(T0), startTime |-> T0, endTime |-> Some(T0 + TimeStep),
     startBlocks |-> 0, endBlocks |-> Some(480000), networkHeight |-> 800000]

StoredCompletion ==
    [completedAt |-> T0, totalSessions |-> 1, totalBlocks |-> 800000,
     totalTimeMs |-> TimeStep]

\* the contents of the four keys: absent, as saveState writes them, or
\* malformed
StoredStates ==
    [sessions : {null, Some(JSON_stringify(<< >>)),
                 Some(JSON_stringify(<<StoredSession>>)), Some(MalformedJSON)},
     completion : {null, Some(JSON_stringify(StoredCompletion)), Some(MalformedJSON)},
     lastHeight : {null, Some("480000"), Some(""), Some("abc")},
     lastProgress : {null, Some("60"), Some("abc")}]

\* the page is loaded with localStorage holding sto
LedgerLoadFrom(sto) ==
    /\ SetLedger(loadInitialState(sto))
    /\ LedgerFrame

\* saveState(state) followed by a load into a fresh in-memory state
LedgerSaveAndLoad ==
    /\ SetLedger(loadInitialState(saveState(Ledger)))
    /\ LedgerFrame

(***************************************************************************)
(* SpecLoad: the page is loaded with any contents of the ledger's keys,    *)
(* then the operations of the store are called.                            *)
(***************************************************************************)
NextLoad ==
    \/ \E sto \in StoredStates : LedgerLoadFrom(sto)
    \/ LedgerSaveAndLoad
    \/ \E b \in LedgerHeights : LedgerStartSession(b, 800000)
    \/ \E b \in LedgerHeights, pr \in LedgerProgress : LedgerUpdateProgress(b, pr)
    \/ \E b \in LedgerHeights : LedgerEndSession(b)
    \/ \E b \in LedgerHeights : LedgerMarkComplete(b)

SpecLoad == Init /\ [][NextLoad]_vars

(***************************************************************************)
(* The sync view with the completion tracking: the batch of the view       *)
(* carries the sync status, the page can be loaded again                   *)
(***************************************************************************)
\* BlockchainInfo snapshots of a node before, during and after its sync
SyncInfoSamples ==
    {[blocks |-> 0, headers |-> 0, initialblockdownload |-> FALSE, pruned |-> FALSE],
     [blocks |-> 480000, headers |-> 800000, initialblockdownload |-> TRUE, pruned |-> FALSE],
     [blocks |-> 800000, headers |-> 800000, initialblockdownload |-> FALSE, pruned |-> FALSE]}

\* a SyncStatus snapshot
SyncStatusSample ==
    [mode |-> "BLOCKS", blocks_per_second |-> 12, eta_seconds |-> 60]

\* loadConfig() for the value of localStorage['bitcoin-echo-rpc-config']
loadConfig(saved) ==
    IF saved = null THEN DEFAULT_CONFIG ELSE Val(saved)

\* the browser loads the page again: timers, requests and every module and
\* component variable are gone, the stores are created anew from
\* localStorage; sessionStorage and the clock stay
PageReload ==
    /\ status' = "disconnected"
    /\ config' = loadConfig(storedConfig)
    /\ lastError' = null
    /\ lastCheck' = null
    /\ stats' = null
    /\ blockHeight' = 0
    /\ lastBlockHeightFetch' = 0
    /\ networkHashrate' = 0
    /\ healthCheckTimer' = FALSE
    /\ skipAutoHealthCheck' = FALSE
    /\ intervalTimers' = 0
    /\ reconnectTimers' = 0
    /\ checks' = EmptyBag
    /\ extFetches' = EmptyBag
    /\ observerMounted' = FALSE
    /\ observerPoll' = FALSE
    /\ heartbeats' = 0
    /\ syncView' = "none"
    /\ isFetching' = FALSE
    /\ error' = null
    /\ loading' = TRUE
    /\ chainInfo' = null
    /\ syncStatus' = null
    /\ blocksPerSecond' = 0
    /\ peerCount' = 0
    /\ nodeUptime' = 0
    /\ nodeStartHeight' = 0
    /\ hasSessionStart' = FALSE
    /\ sessionStartBlocks' = 0
    /\ sessionStartTime' = now
    /\ lastBlockHeight' = 0
    /\ lastUpdateTime' = now
    /\ pollInterval' = FALSE
    /\ pollIntervalPending' = FALSE
    /\ pollTimers' = << >>
    /\ externalPoll' = FALSE
    /\ batches' = EmptyBag
    /\ currentMilestoneNotification' = null
    /\ dismissedMilestones' = {}
    /\ lastMilestoneCheckHeight' = 0
    /\ viewState' = "loading"
    /\ sessionTrackerStarted' = FALSE
    /\ wasNotSynced' = TRUE
    /\ justCompletedSync' = FALSE
    /\ mode' = "unknown"
    /\ modeLoading' = FALSE
    /\ modeLastError' = null
    /\ observerStats' = null
    /\ blockchainInfo' = null
    /\ detects' = EmptyBag
    /\ layoutMounted' = FALSE
    /\ hasDetected' = FALSE
    /\ SetLedger(loadInitialState(ledgerStorage))
    /\ requestId' = 1
    /\ rpcCalls' = {}
    /\ rpcSettled' = null
    /\ UNCHANGED <<storedConfig, now, evaluation, resumeShown>>

(***************************************************************************)
(* SpecSync: the user opens, leaves and reopens the sync view and reloads  *)
(* the page while the node syncs; the polls are answered, the third-party  *)
(* source answers or fails (0), the ledger can be reset.                   *)
(***************************************************************************)
NextSync ==
    \/ SyncMount
    \/ \E i \in 1..Len(pollTimers) : SyncPollFire(i)
    \/ \E b \in BagToSet(batches), info \in SyncInfoSamples :
           SyncBatchOkWithStatus(b, info, StatsBase, SyncStatusSample)
    \/ \E f \in BagToSet(extFetches), h \in ExtHeights :
           FetchExternalDataDone(f, h, 500)
    \/ HandleContinueSync
    \/ HandleEnterDashboard
    \/ SyncTeardown
    \/ PageReload
    \/ LedgerReset

SpecSync == Init /\ [][NextSync]_vars

(***************************************************************************)
(* The sync view's milestone notifications: polls that report the heights  *)
(* around the milestones at 481824, 630000 and 709632, and the dismiss     *)
(* button of the notification                                              *)
(***************************************************************************)
MilestoneInfoSamples ==
    {[blocks |-> h, headers |-> 800000, initialblockdownload |-> TRUE, pruned |-> FALSE] :
         h \in {0, 480000, 482000, 710000}}

\* onDismiss={dismissMilestone} of the notification shown
DismissMilestone ==
    /\ syncView = "mounted"
    /\ currentMilestoneNotification # null
    /\ SetMilestones(dismissMilestone(Milestones))
    /\ UNCHANGED <<syncView, isFetching, error, loading,
                   chainInfo, syncStatus, blocksPerSecond,
                   peerCount, nodeUptime, nodeStartHeight,
                   hasSessionStart, sessionStartBlocks, sessionStartTime,
                   lastBlockHeight, lastUpdateTime,
                   pollInterval, pollIntervalPending, pollTimers, externalPoll, batches>>
    /\ UNCHANGED <<connVars, now, rpcVars, evaluation, observerVars>>
    /\ Effects

NextMilestones ==
    \/ SyncMount
    \/ \E i \in 1..Len(pollTimers) : SyncPollFire(i)
    \/ \E b \in BagToSet(batches), info \in MilestoneInfoSamples :
           SyncBatchOkWithStatus(b, info, StatsBase, SyncStatusSample)
    \/ DismissMilestone
    \/ SyncTeardown

SpecMilestones == Init /\ [][NextMilestones]_vars

(***************************************************************************)
(* The RPC transport: rpcCall and rpcBatchCall step by step, against a     *)
(* remote that may answer in time, late, in part or never                  *)
(***************************************************************************)
\* the response envelope a remote sends for the request with the id given:
\* the result it computed for that request, a null result, no result member,
\* or an error
Envelope(id, variant) ==
    CASE variant = "result"  -> [id |-> id, result |-> Some([for |-> id]), error |-> null]
      [] variant = "null"    -> [id |-> id, result |-> null, error |-> null]
      [] variant = "missing" -> [id |-> id, error |-> null]
      [] variant = "error"   -> [id |-> id, result |-> null,
                                 error |-> Some([code |-> -32601,
                                                 message |-> "Method not found"])]

\* the bodies a remote may send for the invocation c: for a single call one
\* envelope; for a batch the envelopes in the order of the requests, in the
\* reverse order, the first one alone, the first one replaced by a null
\* result, a missing result or an error, or one object instead of an array
RemoteBodies(c) ==
    LET Variants == {"result", "null", "missing", "error"}
        n == Len(c.ids)
        InOrder == [i \in 1..n |-> Envelope(c.ids[i], "result")]
    IN IF c.kind = "call"
       THEN {[json |-> Envelope(c.ids[1], v)] : v \in Variants}
       ELSE {[json |-> [array |-> InOrder]],
             [json |-> [array |-> [i \in 1..n |-> InOrder[n + 1 - i]]]],
             [json |-> [array |-> SubSeq(InOrder, 1, 1)]],
             [json |-> Envelope(c.ids[1], "result")]}
            \cup {[json |-> [array |-> [InOrder EXCEPT ![1] = Envelope(c.ids[1], v)]]] :
                      v \in Variants \ {"result"}}

\* the assignment of the variables of the transport
RpcStep(id, calls, settled) ==
    /\ requestId' = id
    /\ rpcCalls' = calls
    /\ rpcSettled' = settled
    /\ UNCHANGED <<connVars, now, evaluation, observerVars, syncVars, effectVars,
                   modeVars, ledgerVars>>

\* rpcCall(method, [], config) up to its await fetch(...)
rpcCall(method, cfg) ==
    /\ requestId < MaxRequestId
    /\ Cardinality(rpcCalls) < MaxRpcCalls
    /\ RpcStep(requestId + 1,
               rpcCalls \cup {[kind |-> "call", ids |-> <<requestId>>,
                               calls |-> <<method>>, cfg |-> cfg,
                               phase |-> "fetch", timer |-> TRUE,
                               elapsed |-> FALSE]},
               rpcSettled)

\* rpcBatchCall(calls, config) up to its await fetch(...)
rpcBatchCall(calls, cfg) ==
    /\ requestId + Len(calls) <= MaxRequestId
    /\ Cardinality(rpcCalls) < MaxRpcCalls
    /\ RpcStep(requestId + Len(calls),
               rpcCalls \cup {[kind |-> "batch",
                               ids |-> [index \in 1..Len(calls) |->
                                           requestId + (index - 1)],
                               calls |-> calls, cfg |-> cfg,
                               phase |-> "fetch", timer |-> TRUE,
                               elapsed |-> FALSE]},
               rpcSettled)

\* finalConfig.timeout ms have passed since the invocation c began: the
\* timer, if it is still pending, calls controller.abort(), fetch rejects
\* with an AbortError and the catch block throws the timeout Error; a
\* timer that was cleared does nothing
rpcTimeout(c) ==
    /\ c \in rpcCalls
    /\ ~c.elapsed
    /\ IF c.timer
       THEN RpcStep(requestId, rpcCalls \ {c},
                    Some([call |-> [c EXCEPT !.elapsed = TRUE], body |-> null,
                          outcome |-> [ok |-> FALSE,
                                       message |-> IF c.kind = "call"
                                                   THEN rpcCallError("timeout", c.calls[1], c.cfg)
                                                   ELSE rpcBatchCallError("timeout", c.calls, c.cfg)]]))
       ELSE RpcStep(requestId, (rpcCalls \ {c}) \cup {[c EXCEPT !.elapsed = TRUE]},
                    rpcSettled)

\* await fetch(...) resolved with the response headers: clearTimeout, then
\* the test of response.ok, then response.json() is awaited
rpcFetchResolved(c, responseOk) ==
    /\ c \in rpcCalls
    /\ c.phase = "fetch"
    /\ IF responseOk
       THEN RpcStep(requestId,
                    (rpcCalls \ {c}) \cup {[c EXCEPT !.phase = "json", !.timer = FALSE]},
                    rpcSettled)
       ELSE RpcStep(requestId, rpcCalls \ {c},
                    Some([call |-> c, body |-> null,
                          outcome |-> [ok |-> FALSE,
                                       message |-> IF c.kind = "call"
                                                   THEN rpcCallError("http", c.calls[1], c.cfg)
                                                   ELSE rpcBatchCallError("http", c.calls, c.cfg)]]))

\* await fetch(...) rejected by the network
rpcFetchRejected(c) ==
    /\ c \in rpcCalls
    /\ c.phase = "fetch"
    /\ RpcStep(requestId, rpcCalls \ {c},
               Some([call |-> c, body |-> null,
                     outcome |-> [ok |-> FALSE,
                                  message |-> IF c.kind = "call"
                                              THEN rpcCallError("network", c.calls[1], c.cfg)
                                              ELSE rpcBatchCallError("network", c.calls, c.cfg)]]))

\* await response.json() resolved with the body the remote sent
rpcJsonResolved(c, body) ==
    /\ c \in rpcCalls
    /\ c.phase = "json"
    /\ RpcStep(requestId, rpcCalls \ {c},
               Some([call |-> c, body |-> Some(body),
                     outcome |-> IF c.kind = "call"
                                 THEN rpcCallResponse(body, c.calls[1], c.cfg)
                                 ELSE rpcBatchCallResponse(body, c.calls, c.cfg)]))

NextRpc ==
    \/ \E cfg \in {DEFAULT_CONFIG, [DEFAULT_CONFIG EXCEPT !.timeout = 5000]} :
           rpcCall("getobserverstats", cfg)
    \/ \E cfg \in {DEFAULT_CONFIG, [DEFAULT_CONFIG EXCEPT !.timeout = 5000]} :
           rpcBatchCall(<<"getblockchaininfo", "getobserverstats">>, cfg)
    \/ \E c \in rpcCalls : rpcTimeout(c)
    \/ \E c \in rpcCalls, responseOk \in BOOLEAN : rpcFetchResolved(c, responseOk)
    \/ \E c \in rpcCalls : rpcFetchRejected(c)
    \/ \E c \in rpcCalls : \E body \in RemoteBodies(c) : rpcJsonResolved(c, body)

SpecRpc == Init /\ [][NextRpc]_vars

(***************************************************************************)
(* The functions of the program that compute a value from their arguments  *)
(* alone, applied to arguments drawn from the sets below                   *)
(***************************************************************************)
\* the chain infos isSynced is applied to: none, or one at a height at, near
\* or far from the network height 800000, in initial block download or not
SyncedInfoInputs ==
    {null} \cup
    {Some([blocks |-> b, headers |-> 800000, initialblockdownload |-> ibd,
           pruned |-> FALSE]) :
        b \in {0, 5, 799988, 799989, 799990, 799995, 800000, 800005},
        ibd \in BOOLEAN}

\* the function fn returned result for the arguments args
Evaluate(fn, args, result) ==
    /\ evaluation' = Some([fn |-> fn, args |-> args, result |-> result])
    /\ UNCHANGED <<connVars, now, rpcVars, observerVars, syncVars, effectVars,
                   modeVars, ledgerVars>>

\* isSynced() for a chain info and a $blockHeight
EvalIsSynced(ci, networkHeight) ==
    Evaluate("isSynced", <<ci, networkHeight>>, isSynced(ci, networkHeight))

\* the stats detectMode is applied to: none, or a snapshot of an observer,
\* of a full node, or with a mode tag the type does not name
DetectStatsInputs ==
    {null} \cup {Some([StatsBase EXCEPT !.mode = m]) : m \in {"observer", "full", "archival"}}

\* detectMode(stats, info)
EvalDetectMode(st, info) ==
    Evaluate("detectMode", <<st, info>>, detectMode(st, info))

\* the snapshots statsChanged is applied to: none, StatsBase, and StatsBase
\* with one member or one message counter changed
StatsInputs ==
    {null} \cup
    {Some(StatsBase),
     Some([StatsBase EXCEPT !.mode = "full"]),
     Some([StatsBase EXCEPT !.uptime_seconds = 11]),
     Some([StatsBase EXCEPT !.peer_count = 5]),
     Some([StatsBase EXCEPT !.start_height = 480000])} \cup
    {Some([StatsBase EXCEPT !.messages_received[f] = 7]) : f \in DOMAIN MessagesBase}

\* statsChanged(a, b) and statsChanged(b, a)
EvalStatsChanged(a, b) ==
    Evaluate("statsChanged", <<a, b>>,
             [ab |-> statsChanged(a, b), ba |-> statsChanged(b, a)])

NextFunctions ==
    \/ \E ci \in SyncedInfoInputs, networkHeight \in {0, 10, 800000} :
           EvalIsSynced(ci, networkHeight)
    \/ \E st \in DetectStatsInputs, info \in {null} \cup {Some(i) : i \in ModeInfoSamples} :
           EvalDetectMode(st, info)
    \/ \E a \in StatsInputs, b \in StatsInputs : EvalStatsChanged(a, b)

SpecFunctions == Init /\ [][NextFunctions]_vars

(***************************************************************************)
(* Properties                                                              *)
(***************************************************************************)

\* C1: while the sync view is mounted at most one batched request issued by
\* fetchChainInfo is outstanding; a fetchChainInfo invoked by poll() while
\* isFetching is set issues no request and returns true exactly when error
\* is null (poll() then re-arms with the base interval, else the backoff).
C1_SingleBatchInFlight ==
    /\ [](syncView = "mounted" => BagCardinality(batches) <= 1)
    /\ [][\A i \in 1..Len(pollTimers) :
            (isFetching /\ SyncPollFire(i)) =>
                /\ batches' = batches
                /\ pollTimers'[Len(pollTimers')] =
                       IF error = null THEN POLL_INTERVAL ELSE ERROR_BACKOFF_INTERVAL]_vars

\* a poll timer is pending while the initial fetch of onMount is outstanding
C1_Witness ==
    /\ syncView = "mounted"
    /\ isFetching
    /\ batches = SetToBag({[poll |-> FALSE, cfg |-> config]})
    /\ pollTimers = <<POLL_INTERVAL>>
    /\ error = null

\* C2: after the teardown of the sync view that instance starts no batched
\* request and schedules no poll timer.
C2_NoPollAfterTeardown ==
    [][(syncView = "destroyed" /\ syncView' = "destroyed") =>
           /\ BagCardinality(batches') <= BagCardinality(batches)
           /\ Len(pollTimers') <= Len(pollTimers)]_vars

\* C3: the teardown of a view that suspended the heartbeat (sync view,
\* observer view) leaves the suspension flag cleared and the periodic
\* heartbeat timer live.
C3_HeartbeatResumedAfterTeardown ==
    [][(SyncTeardown \/ ObserverDestroy) =>
           /\ ~skipAutoHealthCheck'
           /\ healthCheckTimer'
           /\ intervalTimers' >= 1]_vars

\* C4: while the heartbeat is suspended (from stopAutoHealthCheck to the next
\* resumeAutoHealthCheck) no step other than a call of updateStats starts a
\* getobserverstats request.
C4_NoOwnCheckWhileSuspended ==
    [][(skipAutoHealthCheck /\ skipAutoHealthCheck' /\ ~UpdateStats) =>
           RpcOutstanding(checks') <= RpcOutstanding(checks)]_vars

\* C5: at most one periodic heartbeat timer exists, and it is the one
\* healthCheckTimer holds; connect() with a timer present creates no timer
\* and starts no check; connect() while suspended creates no timer.
C5_SingleHeartbeatTimer ==
    /\ [](intervalTimers <= 1 /\ (healthCheckTimer <=> intervalTimers = 1))
    /\ [][(Connect /\ healthCheckTimer) =>
              (intervalTimers' = intervalTimers /\ checks' = checks)]_vars
    /\ [][(Connect /\ skipAutoHealthCheck) =>
              (intervalTimers' = 0 /\ ~healthCheckTimer')]_vars

\* the heartbeat runs in steady state: a further connect() is a no-op
C5_Witness ==
    /\ healthCheckTimer
    /\ intervalTimers = 1
    /\ status = "connected"
    /\ checks = EmptyBag

\* C6: at most one getobserverstats request of healthCheck is outstanding.
C6_SingleCheckInFlight == RpcOutstanding(checks) <= 1

\* C7: at most one reconnect timer is pending.
C7_SingleReconnectTimer == reconnectTimers <= 1

\* C8: once disconnected with stats cleared, the store stays so until
\* connect, updateStats or updateStatsFromBatch is called.
C8_StaysDisconnected ==
    [][(/\ status = "disconnected"
        /\ stats = null
        /\ ~Connect
        /\ ~UpdateStats
        /\ ~(\E s \in StatsSamples : UpdateStatsFromBatchCall(s))
        /\ ~(\E s \in StatsSamples : ObserverHeartbeatOk(s))) =>
           (status' = "disconnected" /\ stats' = null)]_vars

\* C9: when the RPC call of a health check fails, the store has status
\* error, lastError the message of the failure and stats null, and a
\* reconnect timer is pending.
C9_FailureRecorded ==
    [][\A c \in BagToSet(checks), k \in FailureKinds :
           HealthCheckRpcFail(c, k) =>
               /\ status' = "error"
               /\ lastError' = Some(rpcCallError(k, "getobserverstats", c.cfg))
               /\ stats' = null
               /\ reconnectTimers' >= 1
               /\ reconnectTimers' = reconnectTimers + 1]_vars

\* a health check has failed with a timeout
C9_Witness ==
    /\ status = "error"
    /\ lastError = Some("RPC timeout after 15000ms")
    /\ stats = null
    /\ reconnectTimers = 1

\* C10: status never goes from connected to connecting; it leaves connected
\* only when a health check fails (error) or disconnect is called.
C10_NoFlicker ==
    /\ [][status = "connected" => status' # "connecting"]_vars
    /\ [][(status = "connected" /\ status' # "connected") =>
              \/ (status' = "disconnected" /\ Disconnect)
              \/ (status' = "error" /\
                    \E c \in BagToSet(checks), k \in FailureKinds :
                        HealthCheckRpcFail(c, k))]_vars

\* a tick was started while connected
C10_Witness ==
    /\ status = "connected"
    /\ \E c \in BagToSet(checks) : c.phase = "rpc" /\ ~c.isFirstConnection

\* the health checks of the bag ch that await the third-party fetches
ExtOutstanding(ch) ==
    BagCardinality([c \in {d \in BagToSet(ch) : d.phase = "ext"} |-> ch[c]])

\* C11: a successful health check started in status connected, whose snapshot
\* does not differ (statsChanged) from the one in the store when it arrives
\* and whose external height and hashrate are those of the store, leaves
\* status, stats, lastCheck, lastError and the external fields unchanged.
C11_NoUpdateWhenUnchanged ==
    /\ [][\A c \in BagToSet(checks), s \in StatsSamples :
            (/\ HealthCheckRpcOk(c, s)
             /\ ExtOutstanding(checks') = ExtOutstanding(checks)
             /\ ~c.isFirstConnection
             /\ ~statsChanged(stats, Some(s))) =>
                UNCHANGED <<status, stats, lastCheck, lastError,
                            blockHeight, lastBlockHeightFetch, networkHashrate>>]_vars
    /\ [][\A c \in BagToSet(checks), h \in ExtHeights, r \in ExtHashrates :
            (/\ HealthCheckExtDone(c, h, r)
             /\ ~c.isFirstConnection
             /\ ~statsChanged(stats, Some(c.stats))
             /\ h = blockHeight
             /\ r = networkHashrate) =>
                UNCHANGED <<status, stats, lastCheck, lastError,
                            blockHeight, lastBlockHeightFetch, networkHashrate>>]_vars

\* C13: a third-party fetch (by fetchExternalData or by a health check) is
\* started only when no other fetch was started in the last 30 seconds.
C13_OneFetchPerWindow ==
    [][(\/ BagCardinality(extFetches') > BagCardinality(extFetches)
        \/ ExtOutstanding(checks') > ExtOutstanding(checks)) =>
           /\ \A f \in BagToSet(extFetches) :
                  now - f.now >= BLOCK_HEIGHT_REFRESH_INTERVAL
           /\ \A c \in BagToSet(checks) :
                  c.phase = "ext" => now - c.now >= BLOCK_HEIGHT_REFRESH_INTERVAL
           /\ (lastBlockHeightFetch # 0 =>
                  now - lastBlockHeightFetch >= BLOCK_HEIGHT_REFRESH_INTERVAL)]_vars

\* C12: setConfig(p) leaves config equal to the previous config overridden by
\* p, with the same value in storage, and starts neither timer nor check when
\* no heartbeat timer existed; every getobserverstats request a step starts
\* carries the endpoint and timeout the store holds after that step.
C12_ConfigTakesEffect ==
    /\ [][\A p \in Partials :
            SetConfig(p) =>
                /\ config' = mergeConfig(config, p)
                /\ storedConfig' = Some(config')
                /\ (~healthCheckTimer =>
                       /\ ~healthCheckTimer'
                       /\ intervalTimers' = intervalTimers
                       /\ checks' = checks)]_vars
    /\ [][\A c \in BagToSet(checks') :
            (c.phase = "rpc" /\ CopiesIn(c, checks') > CopiesIn(c, checks)) =>
                c.cfg = config']_vars

\* the endpoint was changed and a health check started since carries it
C12_Witness ==
    /\ config = [endpoint |-> "http://node:8332", timeout |-> 15000]
    /\ storedConfig = Some(config)
    /\ \E c \in BagToSet(checks) : c.phase = "rpc" /\ c.cfg = config

\* C14: while a mounted view holds the polling (heartbeat suspended) the
\* store follows that view's polls: a failed poll leaves status error with
\* lastError set, a poll whose batch succeeded leaves status connected.
C14_StatusReflectsViewPolls ==
    /\ [][(observerMounted /\ skipAutoHealthCheck /\ ObserverHeartbeatFail) =>
              (status' = "error" /\ lastError' # null)]_vars
    /\ [][\A s \in StatsSamples :
            (observerMounted /\ skipAutoHealthCheck /\ ObserverHeartbeatOk(s)) =>
                status' = "connected"]_vars
    /\ [][\A b \in BagToSet(batches) :
            (syncView = "mounted" /\ skipAutoHealthCheck /\ SyncBatchFail(b, "timeout")) =>
                (status' = "error" /\ lastError' = error')]_vars
    /\ [][\A b \in BagToSet(batches), info \in ChainInfoSamples :
            (syncView = "mounted" /\ skipAutoHealthCheck /\ SyncBatchOk(b, info, StatsBase)) =>
                status' = "connected"]_vars

\* C15: after a step in which a health check or an observer heartbeat
\* delivers a snapshot, and with no detection outstanding, the published mode
\* is detectMode of that snapshot and the chain info the mode store holds.
C15_ModeFollowsHeartbeat ==
    /\ [][\A c \in BagToSet(checks), s \in ModeStatsSamples :
            (/\ HealthCheckRpcOk(c, s)
             /\ ExtOutstanding(checks') = ExtOutstanding(checks)
             /\ detects' = EmptyBag) =>
                mode' = detectMode(Some(s), blockchainInfo')]_vars
    /\ [][\A c \in BagToSet(checks) :
            (/\ HealthCheckExtDone(c, 800000, 500)
             /\ detects' = EmptyBag) =>
                mode' = detectMode(Some(c.stats), blockchainInfo')]_vars
    /\ [][\A s \in ModeStatsSamples :
            (/\ ObserverHeartbeatOk(s)
             /\ layoutMounted
             /\ detects' = EmptyBag) =>
                mode' = detectMode(Some(s), blockchainInfo')]_vars

\* C16: isIBD is true only in the modes validate-lite and validate-archival.
C16_IBDOnlyWhenValidating ==
    isIBD => mode \in {"validate-lite", "validate-archival"}

\* C17: markComplete with a completion record present changes neither the
\* record nor the session list nor the storage.
C17_MarkCompleteOnce ==
    [][\A b \in LedgerHeights :
          (completion # null /\ LedgerMarkComplete(b)) =>
              UNCHANGED <<completion, sessions, ledgerStorage>>]_vars

\* the sum of endTime - startTime over the sessions of a list
RECURSIVE SumOfDurations(_)
SumOfDurations(ss) ==
    IF ss = << >> THEN 0
    ELSE (Val(Head(ss).endTime) - Head(ss).startTime) + SumOfDurations(Tail(ss))

\* C18: after markComplete the record's totalSessions is the length of the
\* session list and its totalTimeMs the sum of the sessions' durations;
\* markComplete(b) repeated on the state a markComplete(b) left adds no
\* session and leaves one record, in memory and in storage.
C18_CompletionTotals ==
    /\ [][\A b \in LedgerHeights :
            LedgerMarkComplete(b) =>
                /\ completion' # null
                /\ Val(completion').totalSessions = Len(sessions')
                /\ Val(completion').totalTimeMs = SumOfDurations(sessions')
                /\ Val(completion').totalBlocks = b]_vars
    /\ [][\A b \in LedgerHeights :
            (/\ completion # null
             /\ Val(completion).totalBlocks = b
             /\ currentSession = null
             /\ LedgerMarkComplete(b)) =>
                /\ sessions' = sessions
                /\ currentSession' = null
                /\ ledgerStorage'.completion = Some(JSON_stringify(Val(completion')))]_vars

\* markComplete closed a session that had lasted one step of the clock
C18_Witness ==
    /\ completion # null
    /\ Len(sessions) = 1
    /\ Val(completion).totalSessions = 1
    /\ Val(completion).totalTimeMs = TimeStep
    /\ currentSession = null

C20_StorageMatchesMemory ==
    [][(\/ \E b \in LedgerHeights : LedgerStartSession(b, 800000)
        \/ \E b \in LedgerHeights, pr \in LedgerProgress : LedgerUpdateProgress(b, pr)
        \/ \E b \in LedgerHeights : LedgerEndSession(b)
        \/ \E b \in LedgerHeights : LedgerMarkComplete(b)
        \/ LedgerReset) =>
           LET loaded == loadInitialState(ledgerStorage')
           IN /\ loaded.sessions = sessions'
              /\ loaded.completion = completion'
              /\ loaded.lastKnownHeight = lastKnownHeight'
              /\ loaded.lastKnownProgress = lastKnownProgress']_vars

\* the sessions of the ledger that have not ended: the open slot and the
\* listed sessions without an endTime
OpenSessions ==
    (IF currentSession # null THEN 1 ELSE 0)
    + Cardinality({i \in 1..Len(sessions) : sessions[i].endTime = null})

\* C21: at most one session is open in every state of the ledger, and
\* startSession with a session open leaves currentSession, sessions,
\* lastKnownHeight, lastKnownProgress and the storage as they are.
C21_SingleOpenSession ==
    /\ [](OpenSessions <= 1)
    /\ [][\A b \in LedgerHeights :
            (currentSession # null /\ LedgerStartSession(b, 800000)) =>
                UNCHANGED ledgerVars]_vars

\* a session opened at an earlier time and at another height is open, so
\* a startSession now would open a different one
C21_Witness ==
    /\ currentSession # null
    /\ Val(currentSession).startTime < now
    /\ Val(currentSession).startBlocks = 480000
    /\ lastKnownHeight = 800000

C24_SaveLoadRoundTrip ==
    [][LedgerSaveAndLoad =>
          /\ sessions' = sessions
          /\ lastKnownHeight' = lastKnownHeight
          /\ currentSession' = null]_vars

\* C25: whatever the keys hold, the loaded state and every state the
\* operations make of it has a list of session records and a
\* lastKnownHeight that is a number >= 0.
C25_LoadedStateWellFormed ==
    /\ lastKnownHeight # NaN
    /\ lastKnownHeight >= 0
    /\ \A i \in 1..Len(sessions) : sessions[i].startBlocks >= 0
PollBatches == {b \in BagToSet(batches) : b.poll}

C27_OneNextPoll ==
    /\ [](syncView = "mounted" =>
             /\ Len(pollTimers) <= 1
             /\ \A b \in PollBatches :
                    pollTimers = << >> /\ CopiesIn(b, batches) = 1)
    /\ [][\A b \in PollBatches :
            batches' = BagRemove(batches, b) =>
                pollTimers' = Append(pollTimers,
                                     IF error' = null THEN POLL_INTERVAL
                                     ELSE ERROR_BACKOFF_INTERVAL)]_vars
    /\ [][\A b \in BagToSet(batches) :
            (~b.poll /\ batches' = BagRemove(batches, b)) =>
                pollTimers' = pollTimers]_vars
    /\ [][\A i \in 1..Len(pollTimers) :
            (syncView = "mounted" /\ SyncPollFire(i)) =>
                IF isFetching
                THEN Len(pollTimers') = 1 /\ batches' = batches
                ELSE pollTimers' = << >> /\ PollBatches' # {}]_vars

\* the request of a poll failed and the one timer pending is the backoff
C27_Witness ==
    /\ syncView = "mounted"
    /\ error # null
    /\ batches = EmptyBag
    /\ pollTimers = <<ERROR_BACKOFF_INTERVAL>>

\* C28: no invocation of rpcCall or rpcBatchCall is still outstanding once
\* its configured timeout has passed, and an invocation that settles after
\* its timeout has passed fails with the timeout message that names the
\* configured duration, no body of a response having been processed
C28_TimeoutBoundsEveryCall ==
    /\ \A c \in rpcCalls : ~c.elapsed
    /\ (rpcSettled # null /\ Val(rpcSettled).call.elapsed) =>
           /\ Val(rpcSettled).body = null
           /\ ~Val(rpcSettled).outcome.ok
           /\ Val(rpcSettled).outcome.message =
                  "RPC timeout after "
                      \o ToString(Val(rpcSettled).call.cfg.timeout) \o "ms"

\* C29: an invocation whose response carries, for its first request, an
\* envelope without an error and with a null or missing result fails with
\* the null-result message; no invocation returns a null or missing result
C29_NullResultIsFailure ==
    (rpcSettled # null /\ Val(rpcSettled).body # null) =>
        LET c == Val(rpcSettled).call
            outcome == Val(rpcSettled).outcome
            json == Val(Val(rpcSettled).body).json
            envelopes == IF c.kind = "call" THEN <<json>>
                         ELSE IF "array" \in DOMAIN json THEN json.array
                         ELSE << >>
        IN /\ (/\ envelopes # << >>
               /\ Get(envelopes[1], "error") \in {null, undefined}
               /\ Get(envelopes[1], "result") \in {null, undefined}) =>
                  /\ ~outcome.ok
                  /\ outcome.message =
                         IF c.kind = "call" THEN "RPC returned null result"
                         ELSE "RPC returned null result for " \o c.calls[1]
           /\ outcome.ok =>
                  IF c.kind = "call"
                  THEN outcome.value \notin {null, undefined}
                  ELSE \A i \in 1..Len(outcome.value) :
                           outcome.value[i] \notin {null, undefined}

\* C30: the list a batch invocation returns has one element for each
\* request, and its i-th element is the result the remote computed for the
\* request that carried the i-th id of the batch
C30_BatchResultsInRequestOrder ==
    (/\ rpcSettled # null
     /\ Val(rpcSettled).call.kind = "batch"
     /\ Val(rpcSettled).outcome.ok) =>
        LET c == Val(rpcSettled).call
            results == Val(rpcSettled).outcome.value
        IN /\ Len(results) = Len(c.ids)
           /\ \A i \in 1..Len(c.ids) : results[i] = Some([for |-> c.ids[i]])

\* C31: isSynced is true exactly when a chain info is present, it is not in
\* initial block download, it is not at height 0 under a network height
\* above 0, and it is at most 10 blocks behind the network height
C31_IsSyncedExactly ==
    (evaluation # null /\ Val(evaluation).fn = "isSynced") =>
        LET ci == Val(evaluation).args[1]
            network == Val(evaluation).args[2]
        IN Val(evaluation).result =
               (/\ ci # null
                /\ ~Val(ci).initialblockdownload
                /\ ~(Val(ci).blocks = 0 /\ network > 0)
                /\ network - Val(ci).blocks <= 10)

\* a node 12 blocks behind the network height 800000 is not synced
C31_Witness ==
    /\ evaluation # null
    /\ Val(evaluation).fn = "isSynced"
    /\ Val(evaluation).args[1] # null
    /\ ~Val(Val(evaluation).args[1]).initialblockdownload
    /\ Val(Val(evaluation).args[1]).blocks = 799988
    /\ Val(evaluation).args[2] = 800000
    /\ ~Val(evaluation).result

\* C32: detectMode gives unknown without stats, observer for the mode
\* observer whatever the info, for the mode full validate-lite with a pruned
\* info and validate-archival with an info not pruned or with none, and
\* unknown for any other mode
C32_DetectModeTotal ==
    (evaluation # null /\ Val(evaluation).fn = "detectMode") =>
        LET st == Val(evaluation).args[1]
            info == Val(evaluation).args[2]
        IN Val(evaluation).result =
               CASE st = null -> "unknown"
                 [] st # null /\ Val(st).mode = "observer" -> "observer"
                 [] st # null /\ Val(st).mode = "full" /\ info # null /\ Val(info).pruned ->
                        "validate-lite"
                 [] st # null /\ Val(st).mode = "full" /\ info # null /\ ~Val(info).pruned ->
                        "validate-archival"
                 [] st # null /\ Val(st).mode = "full" /\ info = null ->
                        "validate-archival"
                 [] OTHER -> "unknown"

\* the stats of a full node without a chain info
C32_Witness ==
    /\ evaluation # null
    /\ Val(evaluation).fn = "detectMode"
    /\ Val(evaluation).args[1] # null
    /\ Val(Val(evaluation).args[1]).mode = "full"
    /\ Val(evaluation).args[2] = null
    /\ Val(evaluation).result = "validate-archival"

\* the members statsChanged compares
TrackedOf(snapshot) ==
    <<snapshot.peer_count, snapshot.uptime_seconds,
      [f \in {"version", "verack", "ping", "pong", "inv", "getdata", "block", "tx"} |->
          snapshot.messages_received[f]]>>

\* C33: statsChanged gives the same value for (a, b) and (b, a), false for
\* a snapshot and itself (none and none included), and true when exactly
\* one of the two is none or the two differ in a member it compares
C33_StatsChangedSymmetric ==
    (evaluation # null /\ Val(evaluation).fn = "statsChanged") =>
        LET a == Val(evaluation).args[1]
            b == Val(evaluation).args[2]
            r == Val(evaluation).result
        IN /\ r.ab = r.ba
           /\ a = b => ~r.ab
           /\ (a = null) # (b = null) => r.ab
           /\ (a # null /\ b # null /\ TrackedOf(Val(a)) # TrackedOf(Val(b))) => r.ab

\* no snapshot against one: changed, in both orders
C33_Witness ==
    /\ evaluation # null
    /\ Val(evaluation).fn = "statsChanged"
    /\ Val(evaluation).args[1] = null
    /\ Val(evaluation).args[2] = Some(StatsBase)
    /\ Val(evaluation).result = [ab |-> TRUE, ba |-> TRUE]

\* C36: statsChanged is true for two snapshots that differ in any member of
\* ObserverStats: mode, start_height, uptime_seconds, peer_count or any of
\* the message counters
C36_StatsChangedEveryField ==
    (evaluation # null /\ Val(evaluation).fn = "statsChanged") =>
        LET a == Val(evaluation).args[1]
            b == Val(evaluation).args[2]
        IN (a # null /\ b # null /\ Val(a) # Val(b)) => Val(evaluation).result.ab

\* C34: the sessions startSession created, in the order of their creation
\* (the list, then the open one), have ids that strictly increase, so no
\* two of them have the same id
C34_SessionIdsIncrease ==
    LET created == IF currentSession = null THEN sessions
                   ELSE Append(sessions, Val(currentSession))
        \* the time an id was made from
        Date_parse(id) == CHOOSE t \in {T0 + k * TimeStep : k \in 0..MaxTicks} :
                              toISOString(t) = id
    IN \A i \in 1..Len(created) : \A j \in 1..Len(created) :
           i < j => /\ created[i].id # created[j].id
                    /\ Date_parse(created[i].id) < Date_parse(created[j].id)

\* C35: when the batch of a fetchChainInfo of the sync view resolves with
\* the results of its calls, error is null, chainInfo is the chain info of
\* the batch, blocksPerSecond is the blocks_per_second of the sync status of
\* the same batch, and a poll re-arms with the base interval
C35_SuccessfulBatchStored ==
    [][\A b \in BagToSet(batches), info \in ChainInfoSamples :
          SyncBatchOk(b, info, StatsBase) =>
              LET r == getSyncDataBatch(<<info, StatsBase>>)
              IN /\ error' = null
                 /\ chainInfo' = Some(info)
                 /\ "syncStatus" \in DOMAIN r
                 /\ blocksPerSecond' = r.syncStatus.blocks_per_second
                 /\ b.poll => pollTimers'[Len(pollTimers')] = POLL_INTERVAL]_vars

C38_StatsIffConnected ==
    /\ (stats # null) <=> (status = "connected")
    /\ status = "connected" => lastError = null

\* disconnected after having been connected, a check still outstanding
C38_Witness ==
    /\ status = "disconnected"
    /\ stats = null
    /\ lastCheck # null
    /\ checks # EmptyBag

\* C39: a cached network height above 0 never returns to 0, and neither
\* does a cached hashrate above 0
C39_ExternalDataKept ==
    [][/\ blockHeight # 0 => blockHeight' # 0
       /\ networkHashrate # 0 => networkHashrate' # 0]_vars

\* a health check failed after a height and a hashrate were cached, with a
\* third-party fetch still outstanding
C39_Witness ==
    /\ status = "error"
    /\ blockHeight = 800000
    /\ networkHashrate = 500
    /\ extFetches # EmptyBag

====
